---- MODULE Spec2Model ----
(***************************************************************************)
(* A model of the sanitizing reverse proxy of hailo-sanitize-proxy.py.     *)
(*                                                                         *)
(* Text is modelled at character level with TLA+ strings (Len, SubSeq and  *)
(* \o act on strings).  A JSON value is a tagged record; a body ("bytes")  *)
(* is either empty, bytes that are no JSON, or the JSON value it encodes.  *)
(***************************************************************************)
EXTENDS Integers, Sequences, FiniteSets, TLC

VARIABLES
    cfg,        \* process-wide configuration, fixed at startup
    traceSeq,   \* _TRACE_SEQ: the number of trace ids handed out
    served,     \* requests completed so far
    pc,         \* position of the worker inside its handler
    req,        \* the request head: method, path, headers, content length
    loc,        \* the handler's local variables
    up,         \* the outcome of the upstream call of this request
    out,        \* responses started on the client connection, in order
    events      \* the ordered side effects of this request

vars == <<cfg, traceSeq, served, pc, req, loc, up, out, events>>

(***************************************************************************)
(* Strings: the methods of Python's str the program calls (strip, lower,   *)
(* find, replace, startswith, join ...), which are no part of its source.  *)
(***************************************************************************)
\* s[i], "" outside the string
Ch(s, i) == IF 1 <= i /\ i <= Len(s) THEN SubSeq(s, i, i) ELSE ""

IsWs(c) == c \in {" ", "\n", "\t", "\r"}

Max2(a, b) == IF a > b THEN a ELSE b

LowerCh(c) ==
    CASE c = "A" -> "a" [] c = "B" -> "b" [] c = "C" -> "c" [] c = "D" -> "d"
      [] c = "E" -> "e" [] c = "F" -> "f" [] c = "G" -> "g" [] c = "H" -> "h"
      [] c = "I" -> "i" [] c = "J" -> "j" [] c = "K" -> "k" [] c = "L" -> "l"
      [] c = "M" -> "m" [] c = "N" -> "n" [] c = "O" -> "o" [] c = "P" -> "p"
      [] c = "Q" -> "q" [] c = "R" -> "r" [] c = "S" -> "s" [] c = "T" -> "t"
      [] c = "U" -> "u" [] c = "V" -> "v" [] c = "W" -> "w" [] c = "X" -> "x"
      [] c = "Y" -> "y" [] c = "Z" -> "z" [] OTHER -> c

\* the least element of a set of integers, d when it is empty
LeastOr(S, d) == IF S = {} THEN d ELSE CHOOSE i \in S : \A j \in S : i <= j
GreatestOr(S, d) == IF S = {} THEN d ELSE CHOOSE i \in S : \A j \in S : i >= j

RECURSIVE LowerRange(_, _, _)
\* halving keeps the recursion shallow on long text
LowerRange(s, lo, hi) ==
    IF lo > hi THEN ""
    ELSE IF lo = hi THEN LowerCh(Ch(s, lo))
    ELSE LET mid == (lo + hi) \div 2
         IN  LowerRange(s, lo, mid) \o LowerRange(s, mid + 1, hi)

\* str.lower()
Lower(s) == LowerRange(s, 1, Len(s))

\* the first index >= i that holds no whitespace, Len(s) + 1 if none
FirstNonWs(s, i) == LeastOr({j \in i..Len(s) : ~IsWs(Ch(s, j))}, Max2(i, Len(s) + 1))

\* the last index <= i that holds no whitespace, 0 if none
LastNonWs(s, i) == GreatestOr({j \in 1..i : ~IsWs(Ch(s, j))}, 0)

\* str.strip() and str.rstrip()
Strip(s) == SubSeq(s, FirstNonWs(s, 1), LastNonWs(s, Len(s)))
RStrip(s) == SubSeq(s, 1, LastNonWs(s, Len(s)))

RECURSIVE ReplaceCharRange(_, _, _, _, _)
ReplaceCharRange(s, c, r, lo, hi) ==
    IF lo > hi THEN ""
    ELSE IF lo = hi THEN (IF Ch(s, lo) = c THEN r ELSE Ch(s, lo))
    ELSE LET mid == (lo + hi) \div 2
         IN  ReplaceCharRange(s, c, r, lo, mid) \o ReplaceCharRange(s, c, r, mid + 1, hi)

\* str.replace(c, r) for a one-character c
ReplaceChar(s, c, r) == ReplaceCharRange(s, c, r, 1, Len(s))

\* str.rstrip(c) and str.strip(c) for a one-character c
RStripChar(s, c) == SubSeq(s, 1, GreatestOr({j \in 1..Len(s) : Ch(s, j) # c}, 0))
StripChar(s, c) ==
    SubSeq(s, LeastOr({j \in 1..Len(s) : Ch(s, j) # c}, Len(s) + 1),
           GreatestOr({j \in 1..Len(s) : Ch(s, j) # c}, 0))

StartsWith(s, p) == Len(s) >= Len(p) /\ SubSeq(s, 1, Len(p)) = p
EndsWith(s, p) == Len(s) >= Len(p) /\ SubSeq(s, Len(s) - Len(p) + 1, Len(s)) = p
MatchAt(s, p, i) == i >= 1 /\ i + Len(p) - 1 <= Len(s) /\ SubSeq(s, i, i + Len(p) - 1) = p

\* the least index >= i where p occurs in s, or 0
FindFrom(s, p, i) == LeastOr({j \in i..(Len(s) - Len(p) + 1) : MatchAt(s, p, j)}, 0)

\* str.find(p), 1-based, 0 for "not found"; p in s
Find(s, p) == FindFrom(s, p, 1)
Contains(s, p) == Find(s, p) # 0

\* str.replace(p, r, 1)
ReplaceFirst(s, p, r) ==
    LET i == Find(s, p)
    IN  IF i = 0 THEN s
        ELSE SubSeq(s, 1, i - 1) \o r \o SubSeq(s, i + Len(p), Len(s))

RECURSIVE JoinFrom(_, _, _)
JoinFrom(parts, sep, i) ==
    IF i > Len(parts) THEN ""
    ELSE IF i = Len(parts) THEN parts[i]
    ELSE parts[i] \o sep \o JoinFrom(parts, sep, i + 1)

\* sep.join(parts)
Join(parts, sep) == JoinFrom(parts, sep, 1)

(***************************************************************************)
(* JSON values: the Python objects json.loads returns, with dict.get,      *)
(* setdefault, pop and truthiness as Python defines them.                  *)
(***************************************************************************)
JNull == [t |-> "null"]
JBool(b) == [t |-> "bool", b |-> b]
JInt(n) == [t |-> "int", n |-> n]
JStr(s) == [t |-> "str", s |-> s]
\* an integer beyond 32 bits: hi * 10^9 + lo, with 0 <= lo < 10^9 and hi > 2
JBig(hi, lo) == [t |-> "big", hi |-> hi, lo |-> lo]
JList(l) == [t |-> "list", l |-> l]
JObj(o) == [t |-> "obj", o |-> o]
EmptyObj == JObj(<<>>)

IsObj(v) == v.t = "obj"
IsList(v) == v.t = "list"
IsStr(v) == v.t = "str"
Has(v, k) == k \in DOMAIN v.o

\* dict.get(k) and dict.get(k, d)
Get(v, k) == IF Has(v, k) THEN v.o[k] ELSE JNull
GetD(v, k, d) == IF Has(v, k) THEN v.o[k] ELSE d

\* d[k] = x; d.pop(k, None); d.setdefault(k, x)
Put(v, k, x) == JObj([j \in DOMAIN v.o \cup {k} |-> IF j = k THEN x ELSE v.o[j]])
Drop(v, k) == JObj([j \in DOMAIN v.o \ {k} |-> v.o[j]])
SetDefault(v, k, x) == IF Has(v, k) THEN v ELSE Put(v, k, x)

\* Python truthiness of a JSON value
Truthy(v) ==
    CASE v.t = "null" -> FALSE
      [] v.t = "bool" -> v.b
      [] v.t = "int" -> v.n # 0
      [] v.t = "str" -> v.s # ""
      [] v.t = "list" -> Len(v.l) > 0
      [] v.t = "obj" -> DOMAIN v.o # {}
      [] v.t = "big" -> TRUE

\* isinstance(v, int): a Python bool is an int
IsPyInt(v) == v.t \in {"int", "bool"}
IntOf(v) == IF v.t = "bool" THEN (IF v.b THEN 1 ELSE 0) ELSE v.n

\* Bodies on the wire.
NoBody == [k |-> "empty"]
RawBody(tag) == [k |-> "raw", tag |-> tag]
JsonBody(v) == [k |-> "json", v |-> v]
IsJson(b) == b.k = "json"
IsJsonObj(b) == b.k = "json" /\ b.v.t = "obj"
\* `if body:` on bytes
NonEmpty(b) == b.k # "empty"
\* JSON text beyond the limits of json.loads (nesting deeper than the recursion
\* limit, an integer of more than 4300 digits): json.loads raises RecursionError
\* or ValueError, neither of them a JSONDecodeError
OverLimitBody == [k |-> "overlimit"]
OverLimit(b) == b.k = "overlimit"

(***************************************************************************)
(* Configuration (module-level constants of the program).                  *)
(***************************************************************************)
MAX_TOOL_DESCRIPTION_CHARS == 120
MAX_TOOL_COUNT_IN_PROMPT == 8
MAX_PROXY_COMPLETION_TOKENS == 128
\* the default of MAX_HISTORY_MESSAGES; the configured value is cfg.maxHistory
DEFAULT_MAX_HISTORY_MESSAGES == 1

MINIMAL_SYSTEM_PROMPT ==
    "You are a helpful personal assistant. "
    \o "Answer the user's questions concisely and helpfully. "
    \o "If you don't know something, say so."

ALLOWED_CHAT_FIELDS ==
    {"model", "messages", "temperature", "top_p", "n", "stream",
     "max_tokens", "max_completion_tokens", "presence_penalty",
     "frequency_penalty", "seed", "tools", "tool_choice",
     "parallel_tool_calls"}

ALLOWED_MESSAGE_FIELDS == {"role", "content", "tool_calls", "name", "tool_call_id"}

TOOL_INTENT_TOKENS == {" use ", " tool", "skill", "/rag", "rag ", "molt", "run ", "execute"}

BLOCKED_TOOL_NAMES ==
    {"read", "write", "edit", "search", "process",
     "sessions_list", "sessions_history", "sessions_send",
     "sessions_spawn", "session_status"}

CORS_ALLOWED_ORIGINS == {"http://localhost:8787", "http://127.0.0.1:8787"}

ALLOWED_HOSTS ==
    {"127.0.0.1:8081", "localhost:8081", "[::1]:8081", "127.0.0.1", "localhost", "[::1]"}

(***************************************************************************)
(* Reading the request: tool names, latest user text, tool intent.         *)
(***************************************************************************)
\* The text parts of a list-structured content, as _extract_latest_user_text
\* collects them: str(part.get("text", "")) of the parts typed "text", and
\* the bare strings.
RECURSIVE UserTextParts(_, _)
UserTextParts(parts, i) ==
    IF i > Len(parts) THEN <<>>
    ELSE LET p == parts[i]
             rest == UserTextParts(parts, i + 1)
         IN  IF IsObj(p)
             THEN IF Get(p, "type") = JStr("text")
                  THEN <<(IF IsStr(GetD(p, "text", JStr(""))) THEN GetD(p, "text", JStr("")).s
                          ELSE "None")>> \o rest
                  ELSE rest
             ELSE IF IsStr(p) THEN <<p.s>> \o rest ELSE rest

\* str(content) for the content values of the model
PyStr(v) ==
    CASE v.t = "str" -> v.s
      [] v.t = "null" -> "None"
      [] v.t = "bool" -> (IF v.b THEN "True" ELSE "False")
      [] OTHER -> "0"

RECURSIVE LatestUserFrom(_, _)
LatestUserFrom(msgs, i) ==
    IF i < 1 THEN ""
    ELSE LET m == msgs[i]
         IN  IF ~IsObj(m) \/ Get(m, "role") # JStr("user")
             THEN LatestUserFrom(msgs, i - 1)
             ELSE LET content == GetD(m, "content", JStr(""))
                  IN  IF IsList(content)
                      THEN Join(UserTextParts(content.l, 1), "\n")
                      ELSE PyStr(content)

_extract_latest_user_text(body) ==
    IF ~IsJsonObj(body) THEN ""
    ELSE LET messages == Get(body.v, "messages")
         IN  IF ~IsList(messages) THEN ""
             ELSE LatestUserFrom(messages.l, Len(messages.l))

\* _has_explicit_tool_intent taking any non-blank text for an intent
_has_explicit_tool_intentAnyText(text) == Strip(text) # ""

_has_explicit_tool_intent(text) ==
    LET normalized == " " \o Lower(Strip(text)) \o " "
    IN  IF Strip(normalized) = "" THEN FALSE
        ELSE \E token \in TOOL_INTENT_TOKENS : Contains(normalized, token)

_extract_tool_names(body) ==
    IF ~IsJsonObj(body) THEN {}
    ELSE LET tools == Get(body.v, "tools")
         IN  IF ~IsList(tools) THEN {}
             ELSE { Get(Get(tools.l[i], "function"), "name").s :
                      i \in { j \in 1..Len(tools.l) :
                                /\ IsObj(tools.l[j])
                                /\ Get(tools.l[j], "type") = JStr("function")
                                /\ IsObj(Get(tools.l[j], "function"))
                                /\ IsStr(Get(Get(tools.l[j], "function"), "name"))
                                /\ Get(Get(tools.l[j], "function"), "name").s # "" } }

(***************************************************************************)
(* Request Sanitizer.                                                      *)
(***************************************************************************)
\* A Python call either returns a value or raises.
Ret(v) == [st |-> "ok", v |-> v]
Raise == [st |-> "raise"]
Raised(r) == r.st = "raise"

\* the parameter names the tool declarations of the model use, in sorted order
KnownKeys == <<"command", "file_path", "message", "path", "query">>
Rank(k) == LeastOr({a \in 1..Len(KnownKeys) : KnownKeys[a] = k}, Len(KnownKeys) + 1)

RECURSIVE SortedKeys(_)
\* sorted(props.keys())
SortedKeys(ks) ==
    IF ks = {} THEN <<>>
    ELSE LET first == CHOOSE k \in ks : \A j \in ks : Rank(k) <= Rank(j)
         IN  <<first>> \o SortedKeys(ks \ {first})

\* build_tool_prompt, one entry of the loop, innermost step first.
\* "- name: desc (args: a, b)"
ToolLineText(name, desc, args) ==
    Ret("- " \o name
        \o (IF desc # "" THEN ": " \o desc ELSE "")
        \o (IF args # "" THEN " (args: " \o args \o ")" ELSE ""))

\* desc[:MAX_TOOL_DESCRIPTION_CHARS].rstrip() + "..."
Truncated(desc) ==
    IF Len(desc) > MAX_TOOL_DESCRIPTION_CHARS
    THEN RStrip(SubSeq(desc, 1, MAX_TOOL_DESCRIPTION_CHARS)) \o "..."
    ELSE desc

ArgNames(props) == IF IsObj(props) THEN Join(SortedKeys(DOMAIN props.o), ", ") ELSE ""

PropsOf(params) == IF IsObj(params) THEN GetD(params, "properties", EmptyObj) ELSE EmptyObj

ToolLineOf(fn, name, d) ==
    IF ~Truthy(name) THEN Ret("")
    ELSE IF ~IsStr(d) \/ ~IsStr(name) THEN Raise
    ELSE ToolLineText(name.s, Truncated(ReplaceChar(Strip(d.s), "\n", " ")),
                      ArgNames(PropsOf(GetD(fn, "parameters", EmptyObj))))

ToolLineFn(fn) ==
    IF ~IsObj(fn) THEN Raise
    ELSE ToolLineOf(fn, Get(fn, "name"), GetD(fn, "description", JStr("")))

\* One bulleted line of build_tool_prompt, or a raise, or "" for a skipped entry.
ToolLine(tool) ==
    IF ~IsObj(tool) \/ Get(tool, "type") # JStr("function") THEN Ret("")
    ELSE ToolLineFn(GetD(tool, "function", EmptyObj))

ConsLine(text, rest) == IF Raised(rest) THEN Raise ELSE Ret(<<text>> \o rest.v)

RECURSIVE ToolLines(_, _, _)
ToolLinesWith(tools, i, tool_count, line) ==
    IF Raised(line) THEN Raise
    ELSE IF line.v = "" THEN ToolLines(tools, i + 1, tool_count)
    ELSE IF tool_count + 1 >= MAX_TOOL_COUNT_IN_PROMPT THEN Ret(<<line.v, "- ...">>)
    ELSE ConsLine(line.v, ToolLines(tools, i + 1, tool_count + 1))

\* the loop of build_tool_prompt from entry i on, tool_count lines so far
ToolLines(tools, i, tool_count) ==
    IF i > Len(tools) THEN Ret(<<>>)
    ELSE ToolLinesWith(tools, i, tool_count, ToolLine(tools[i]))

ToolPromptHeader ==
    <<"Tool usage:",
      "- If a tool is needed, respond ONLY with JSON:",
      "  {\"tool\": \"<name>\", \"arguments\": { ... }}",
      "- Otherwise, respond normally.",
      "Available tools:">>

PromptOf(lines) ==
    IF Raised(lines) THEN Raise ELSE Ret(Join(ToolPromptHeader \o lines.v, "\n"))

\* tools_payload is a JSON value, JNull for None
build_tool_prompt(tools_payload) ==
    IF ~Truthy(tools_payload) \/ ~IsList(tools_payload) THEN Ret("")
    ELSE PromptOf(ToolLines(tools_payload.l, 1, 0))

RECURSIVE SkillLines(_, _)
SkillLines(skills, i) ==
    IF i > Len(skills) THEN <<>>
    ELSE LET skill == skills[i]
         IN  <<"  <skill>", "    <name>" \o skill.name \o "</name>">>
             \o (IF skill.description # ""
                 THEN <<"    <description>" \o skill.description \o "</description>">>
                 ELSE <<>>)
             \o <<"    <location>" \o skill.location \o "</location>", "  </skill>">>
             \o SkillLines(skills, i + 1)

\* skills: what the scan of the workspace directory found (name, description,
\* location of each SKILL.md); the empty sequence when there is no directory
build_skills_block_from_workspace(skills) ==
    IF skills = <<>> THEN ""
    ELSE Join(<<"<available_skills>">> \o SkillLines(skills, 1) \o <<"</available_skills>">>, "\n")

IsRole(m, role) == Get(m, "role") = JStr(role)

\* user_msgs[-n:] of a Python list
LastSlice(msgs, n) ==
    IF n = 0 THEN msgs
    ELSE IF n > 0 THEN SubSeq(msgs, (IF Len(msgs) - n < 0 THEN 0 ELSE Len(msgs) - n) + 1, Len(msgs))
    ELSE SubSeq(msgs, (IF -n > Len(msgs) THEN Len(msgs) ELSE -n) + 1, Len(msgs))

SysPromptDump == "/tmp/hailo-proxy-system-prompt.txt"
SanitizedPromptDump == "/tmp/hailo-proxy-sanitized-system-prompt.txt"
ToolsDump == "/tmp/hailo-proxy-tools.json"

\* len(v) where Python defines it
HasLen(v) == v.t \in {"str", "list", "obj"}
PyLen(v) ==
    CASE v.t = "str" -> Len(v.s)
      [] v.t = "list" -> Len(v.l)
      [] v.t = "obj" -> Cardinality(DOMAIN v.o)
      [] OTHER -> 0

RECURSIVE SumLen(_, _)
SumLen(ms, i) ==
    IF i > Len(ms) THEN 0 ELSE PyLen(GetD(ms[i], "content", JStr(""))) + SumLen(ms, i + 1)

\* messages: a JSON value (the cleaned list); returns [v: messages, files]
simplify_messages(messages, tool_prompt, maxHistory, skills) ==
    IF ~Truthy(messages) THEN Ret([msgs |-> messages, files |-> {}])
    ELSE IF ~IsList(messages) THEN Raise
    ELSE LET IsUser(m) == IsRole(m, "user")
             IsSystem(m) == IsRole(m, "system")
             all_user == SelectSeq(messages.l, IsUser)
             user_msgs == IF Len(all_user) > maxHistory
                          THEN LastSlice(all_user, maxHistory)
                          ELSE all_user
             sys_msgs == SelectSeq(messages.l, IsSystem)
             lenOk == \A i \in 1..Len(sys_msgs) : HasLen(GetD(sys_msgs[i], "content", JStr("")))
             original_sys_len == SumLen(sys_msgs, 1)
             skills_block == build_skills_block_from_workspace(skills)
             system_content ==
                 MINIMAL_SYSTEM_PROMPT
                 \o (IF tool_prompt # "" THEN "\n\n" \o tool_prompt ELSE "")
                 \o (IF skills_block # "" THEN "\n\nAvailable skills:\n" \o skills_block ELSE "")
             sysmsg == JObj([k \in {"role", "content"} |->
                             IF k = "role" THEN JStr("system") ELSE JStr(system_content)])
         IN  IF ~lenOk THEN Raise
             ELSE Ret([msgs |-> JList(<<sysmsg>> \o user_msgs),
                       files |-> (IF original_sys_len > Len(MINIMAL_SYSTEM_PROMPT)
                                  THEN {SysPromptDump} ELSE {})
                                 \cup {SanitizedPromptDump}])

RECURSIVE FlattenParts(_, _)
\* the text parts sanitize_chat_body keeps of a list-structured content
FlattenParts(parts, i) ==
    IF i > Len(parts) THEN <<>>
    ELSE (IF IsObj(parts[i]) /\ Get(parts[i], "type") = JStr("text")
          THEN <<GetD(parts[i], "text", JStr(""))>>
          ELSE IF IsStr(parts[i]) THEN <<parts[i]>> ELSE <<>>)
         \o FlattenParts(parts, i + 1)

\* "\n".join(parts): raises on a part whose text is no string
JoinParts(kept, parts) ==
    IF \E i \in 1..Len(parts) : ~IsStr(parts[i]) THEN Raise
    ELSE Ret(Put(kept, "content", JStr(Join([i \in 1..Len(parts) |-> parts[i].s], "\n"))))

CleanContent(kept, content) ==
    IF IsList(content) THEN JoinParts(kept, FlattenParts(content.l, 1))
    ELSE IF content = JNull THEN Ret(Put(kept, "content", JStr("")))
    ELSE Ret(kept)

CleanKept(kept) == CleanContent(kept, Get(kept, "content"))

\* One message of the client, cleaned: recognized fields only, list content
\* flattened, null or missing content defaulted to "".
CleanMsg(msg) == CleanKept(JObj([k \in DOMAIN msg.o \cap ALLOWED_MESSAGE_FIELDS |-> msg.o[k]]))

CleanedList(cleaned) ==
    IF \E i \in 1..Len(cleaned) : Raised(cleaned[i]) THEN Raise
    ELSE Ret(JList([i \in 1..Len(cleaned) |-> cleaned[i].v]))

CleanDicts(dicts) == CleanedList([i \in 1..Len(dicts) |-> CleanMsg(dicts[i])])

CleanMsgs(msgs) == CleanDicts(SelectSeq(msgs, IsObj))

\* min(v, c) of Python: a bool is an int, and min(True, c) is True
PyMin(v, c) == IF IntOf(v) <= c THEN v ELSE JInt(c)

PositiveInt(v) == IsPyInt(v) /\ IntOf(v) > 0

\* the resolution of max_tokens without the min() against the ceiling
ResolveNoClamp(sanitized) ==
    IF PositiveInt(Get(sanitized, "max_tokens")) THEN Get(sanitized, "max_tokens")
    ELSE IF PositiveInt(Get(sanitized, "max_completion_tokens"))
    THEN Get(sanitized, "max_completion_tokens")
    ELSE JInt(MAX_PROXY_COMPLETION_TOKENS)

\* the resolution of max_tokens
ResolveMaxTokens(sanitized) ==
    IF PositiveInt(Get(sanitized, "max_tokens"))
    THEN PyMin(Get(sanitized, "max_tokens"), MAX_PROXY_COMPLETION_TOKENS)
    ELSE IF PositiveInt(Get(sanitized, "max_completion_tokens"))
    THEN PyMin(Get(sanitized, "max_completion_tokens"), MAX_PROXY_COMPLETION_TOKENS)
    ELSE JInt(MAX_PROXY_COMPLETION_TOKENS)

\* Step 1 of sanitize_chat_body: recognized, non-null fields
FilterFields(data) ==
    JObj([k \in {j \in DOMAIN data.o \cap ALLOWED_CHAT_FIELDS : data.o[j] # JNull} |-> data.o[k]])

\* sanitized["stream"] = False
ForceStream(sanitized) == Put(sanitized, "stream", JBool(FALSE))

\* the max_tokens step, dropping max_completion_tokens
ResolveTokens(sanitized) ==
    Drop(Put(sanitized, "max_tokens", ResolveMaxTokens(sanitized)), "max_completion_tokens")

ClampN(sanitized) ==
    IF PositiveInt(Get(sanitized, "n")) /\ IntOf(Get(sanitized, "n")) > 1
    THEN Put(sanitized, "n", JInt(1))
    ELSE sanitized

\* the dump of the tools payload
ToolFiles(tools_payload) == IF tools_payload # JNull THEN {ToolsDump} ELSE {}

\* sanitize_chat_body, last step first: each operator takes what the steps
\* before it computed.
SanitizeSimplified(sanitized, simplified, tools_payload) ==
    IF Raised(simplified) THEN Raise
    ELSE Ret([body |-> JsonBody(Put(sanitized, "messages", simplified.v.msgs)),
              files |-> ToolFiles(tools_payload) \cup simplified.v.files])

SanitizePrompt(sanitized, tool_prompt, tools_payload, maxHistory, skills) ==
    IF Raised(tool_prompt) THEN Raise
    ELSE SanitizeSimplified(sanitized,
             simplify_messages(Get(sanitized, "messages"), tool_prompt.v, maxHistory, skills),
             tools_payload)

SanitizeMessages(sanitized, tools_payload, maxHistory, skills) ==
    IF ~Has(sanitized, "messages")
    THEN Ret([body |-> JsonBody(sanitized), files |-> ToolFiles(tools_payload)])
    ELSE SanitizePrompt(sanitized, build_tool_prompt(tools_payload), tools_payload,
                        maxHistory, skills)

SanitizeCleaned(sanitized, cleaned, tools_payload, maxHistory, skills) ==
    IF Raised(cleaned) THEN Raise
    ELSE SanitizeMessages(
             ClampN(ResolveTokens(ForceStream(
                 IF Has(sanitized, "messages") THEN Put(sanitized, "messages", cleaned.v)
                 ELSE sanitized))),
             tools_payload, maxHistory, skills)

SanitizeTools(sanitized, tools_payload, maxHistory, skills) ==
    SanitizeCleaned(sanitized,
        IF Has(sanitized, "messages") /\ IsList(Get(sanitized, "messages"))
        THEN CleanMsgs(Get(sanitized, "messages").l)
        ELSE Ret(Get(sanitized, "messages")),
        tools_payload, maxHistory, skills)

SanitizeFiltered(sanitized, tool_prompt_enabled, maxHistory, skills) ==
    SanitizeTools(Drop(sanitized, "tools"),
                  IF tool_prompt_enabled THEN Get(sanitized, "tools") ELSE JNull,
                  maxHistory, skills)

\* sanitize_chat_body(body_bytes, tool_prompt_enabled): the body to forward
\* and the files written on the way, or a raise.
sanitize_chat_body(body, tool_prompt_enabled, maxHistory, skills) ==
    IF OverLimit(body) THEN Raise
    ELSE IF ~IsJsonObj(body) THEN Ret([body |-> body, files |-> {}])
    ELSE SanitizeFiltered(FilterFields(body.v), tool_prompt_enabled, maxHistory, skills)

(***************************************************************************)
(* json.loads and json.dumps of Python's library over text, for the text   *)
(* the language model generates.  Numbers are decimal integers; the        *)
(* escapes are those of the quote, the backslash, newline, tab and return. *)
(***************************************************************************)
Digits == {"0", "1", "2", "3", "4", "5", "6", "7", "8", "9"}
DigitVal(c) ==
    CASE c = "0" -> 0 [] c = "1" -> 1 [] c = "2" -> 2 [] c = "3" -> 3 [] c = "4" -> 4
      [] c = "5" -> 5 [] c = "6" -> 6 [] c = "7" -> 7 [] c = "8" -> 8 [] c = "9" -> 9
DigitStr(d) == Ch("0123456789", d + 1)

RECURSIVE IntStr(_)
\* str(n) for n >= 0
IntStr(n) == IF n < 10 THEN DigitStr(n) ELSE IntStr(n \div 10) \o DigitStr(n % 10)

Fail == [ok |-> FALSE]
Ok(v, i) == [ok |-> TRUE, v |-> v, i |-> i]

RECURSIVE DigitsEnd(_, _)
DigitsEnd(s, i) == IF i <= Len(s) /\ Ch(s, i) \in Digits THEN DigitsEnd(s, i + 1) ELSE i

RECURSIVE DigitsVal(_, _, _, _)
DigitsVal(s, i, e, acc) ==
    IF i >= e THEN acc ELSE DigitsVal(s, i + 1, e, acc * 10 + DigitVal(Ch(s, i)))

\* whether the quote at j is escaped: an odd run of backslashes precedes it
EscapedAt(s, j) ==
    LET b == GreatestOr({k \in 1..(j - 1) : Ch(s, k) # "\\"}, 0)
    IN  (j - 1 - b) % 2 = 1

RECURSIVE Unescape(_, _)
\* the characters of a string literal's body from i on: [ok, s]
Unescape(body, i) ==
    IF i > Len(body) THEN [ok |-> TRUE, s |-> ""]
    ELSE LET c == Ch(body, i)
             n == Ch(body, i + 1)
         IN  IF c \in {"\n", "\t", "\r"} THEN [ok |-> FALSE]
             ELSE IF c # "\\"
             THEN LET rest == Unescape(body, i + 1)
                  IN  IF rest.ok THEN [ok |-> TRUE, s |-> c \o rest.s] ELSE rest
             ELSE IF n \notin {"\"", "\\", "/", "n", "t", "r"} THEN [ok |-> FALSE]
             ELSE LET rest == Unescape(body, i + 2)
                      ch == CASE n = "n" -> "\n" [] n = "t" -> "\t" [] n = "r" -> "\r"
                              [] OTHER -> n
                  IN  IF rest.ok THEN [ok |-> TRUE, s |-> ch \o rest.s] ELSE rest

ParseStringBody(body, e) == IF ~body.ok THEN Fail ELSE Ok(JStr(body.s), e + 1)

ParseStringTo(s, i, e) ==
    IF e = 0 THEN Fail ELSE ParseStringBody(Unescape(SubSeq(s, i + 1, e - 1), 1), e)

\* the string literal opened at i: its closing quote is the first unescaped one
ParseString(s, i) ==
    ParseStringTo(s, i, LeastOr({j \in (i + 1)..Len(s) : Ch(s, j) = "\"" /\ ~EscapedAt(s, j)}, 0))

NumberOf(s, neg, b, e) ==
    IF e = b \/ (e - b > 1 /\ Ch(s, b) = "0") \/ e - b > 9 THEN Fail
    ELSE Ok(JInt(IF neg THEN 0 - DigitsVal(s, b, e, 0) ELSE DigitsVal(s, b, e, 0)), e)

NumberFrom(s, neg, b) == NumberOf(s, neg, b, DigitsEnd(s, b))

ParseNumber(s, i) == NumberFrom(s, Ch(s, i) = "-", IF Ch(s, i) = "-" THEN i + 1 ELSE i)

RECURSIVE ParseValue(_, _)
RECURSIVE ParseMembers(_, _, _)
RECURSIVE ParseElements(_, _, _)

\* after a member: the closing brace, or a comma and the next member
MemberNext(s, n, acc) ==
    IF Ch(s, n) = "}" THEN Ok(acc, n + 1)
    ELSE IF Ch(s, n) = "," THEN ParseMembers(s, FirstNonWs(s, n + 1), acc)
    ELSE Fail

MemberValue(s, key, val, acc) ==
    IF ~val.ok THEN Fail ELSE MemberNext(s, FirstNonWs(s, val.i), Put(acc, key.v.s, val.v))

MemberColon(s, key, c, acc) ==
    IF Ch(s, c) # ":" THEN Fail
    ELSE MemberValue(s, key, ParseValue(s, FirstNonWs(s, c + 1)), acc)

MemberKey(s, key, acc) ==
    IF ~key.ok THEN Fail ELSE MemberColon(s, key, FirstNonWs(s, key.i), acc)

\* the members of an object from the key at i on; acc holds the members so far
ParseMembers(s, i, acc) ==
    IF Ch(s, i) # "\"" THEN Fail ELSE MemberKey(s, ParseString(s, i), acc)

ElementNext(s, n, acc) ==
    IF Ch(s, n) = "]" THEN Ok(JList(acc), n + 1)
    ELSE IF Ch(s, n) = "," THEN ParseElements(s, FirstNonWs(s, n + 1), acc)
    ELSE Fail

ElementValue(s, val, acc) ==
    IF ~val.ok THEN Fail ELSE ElementNext(s, FirstNonWs(s, val.i), Append(acc, val.v))

ParseElements(s, i, acc) == ElementValue(s, ParseValue(s, i), acc)

ObjectFrom(s, j) ==
    IF Ch(s, j) = "}" THEN Ok(EmptyObj, j + 1) ELSE ParseMembers(s, j, EmptyObj)

ArrayFrom(s, j) ==
    IF Ch(s, j) = "]" THEN Ok(JList(<<>>), j + 1) ELSE ParseElements(s, j, <<>>)

ParseValue(s, i) ==
    IF i > Len(s) THEN Fail
    ELSE IF Ch(s, i) = "{" THEN ObjectFrom(s, FirstNonWs(s, i + 1))
    ELSE IF Ch(s, i) = "[" THEN ArrayFrom(s, FirstNonWs(s, i + 1))
    ELSE IF Ch(s, i) = "\"" THEN ParseString(s, i)
    ELSE IF MatchAt(s, "true", i) THEN Ok(JBool(TRUE), i + 4)
    ELSE IF MatchAt(s, "false", i) THEN Ok(JBool(FALSE), i + 5)
    ELSE IF MatchAt(s, "null", i) THEN Ok(JNull, i + 4)
    ELSE IF Ch(s, i) = "-" \/ Ch(s, i) \in Digits THEN ParseNumber(s, i)
    ELSE Fail

\* nothing but whitespace may follow the value
LoadsEnd(s, r) == IF r.ok /\ FirstNonWs(s, r.i) > Len(s) THEN r ELSE Fail

\* json.loads(text): [ok, v]; ok is FALSE where json.loads raises JSONDecodeError
Loads(s) == LoadsEnd(s, ParseValue(s, FirstNonWs(s, 1)))

EscapeCh(c) ==
    CASE c = "\"" -> "\\\"" [] c = "\\" -> "\\\\" [] c = "\n" -> "\\n"
      [] c = "\t" -> "\\t" [] c = "\r" -> "\\r" [] OTHER -> c

RECURSIVE EscapeRange(_, _, _)
EscapeRange(s, lo, hi) ==
    IF lo > hi THEN ""
    ELSE IF lo = hi THEN EscapeCh(Ch(s, lo))
    ELSE LET mid == (lo + hi) \div 2
         IN  EscapeRange(s, lo, mid) \o EscapeRange(s, mid + 1, hi)

\* a string as json.dumps writes it
Quoted(s) == "\"" \o EscapeRange(s, 1, Len(s)) \o "\""

RECURSIVE Dumps(_)
RECURSIVE DumpsItems(_, _)
RECURSIVE DumpsMembers(_, _)

DumpsItems(l, i) ==
    IF i > Len(l) THEN ""
    ELSE Dumps(l[i]) \o (IF i < Len(l) THEN ", " ELSE "") \o DumpsItems(l, i + 1)

\* the members in some fixed order (the insertion order of a dict is not modelled)
DumpsMembers(o, ks) ==
    IF ks = {} THEN ""
    ELSE LET k == CHOOSE j \in ks : TRUE
         IN  Quoted(k) \o ": " \o Dumps(o[k])
             \o (IF ks # {k} THEN ", " ELSE "") \o DumpsMembers(o, ks \ {k})

\* json.dumps(v)
Dumps(v) ==
    CASE v.t = "null" -> "null"
      [] v.t = "bool" -> (IF v.b THEN "true" ELSE "false")
      [] v.t = "int" -> (IF v.n < 0 THEN "-" \o IntStr(0 - v.n) ELSE IntStr(v.n))
      [] v.t = "big" -> IntStr(v.hi) \o SubSeq(IntStr(1000000000 + v.lo), 2, 10)
      [] v.t = "str" -> Quoted(v.s)
      [] v.t = "list" -> "[" \o DumpsItems(v.l, 1) \o "]"
      [] v.t = "obj" -> "{" \o DumpsMembers(v.o, DOMAIN v.o) \o "}"

(***************************************************************************)
(* Tool-Call Parser and Remapper.                                          *)
(***************************************************************************)
\* re.search(r'"(?:k1|k2|...)"\s*:\s*"([^"]+)"', raw) tried at position i with
\* key k: the captured group, or "" for no match there
KeyValueTo(raw, v, e) == IF e > v + 1 THEN SubSeq(raw, v + 1, e - 1) ELSE ""

KeyValueAt(raw, v) ==
    IF Ch(raw, v) = "\"" THEN KeyValueTo(raw, v, FindFrom(raw, "\"", v + 1)) ELSE ""

KeyColonAt(raw, c) ==
    IF Ch(raw, c) = ":" THEN KeyValueAt(raw, FirstNonWs(raw, c + 1)) ELSE ""

\* the pattern "k"\s*:\s*"([^"]+)" anchored at i: its group, or "" when it
\* does not match there
MatchKeyAt(raw, k, i) ==
    IF Ch(raw, i) = "\"" /\ MatchAt(raw, k, i + 1) /\ Ch(raw, i + 1 + Len(k)) = "\""
    THEN KeyColonAt(raw, FirstNonWs(raw, i + 2 + Len(k)))
    ELSE ""

RECURSIVE FirstKeyAt(_, _, _, _)
OrNextKey(found, raw, keys, n, i) ==
    IF found # "" THEN found ELSE FirstKeyAt(raw, keys, n + 1, i)

\* the alternatives in the order the pattern lists them
FirstKeyAt(raw, keys, n, i) ==
    IF n > Len(keys) THEN "" ELSE OrNextKey(MatchKeyAt(raw, keys[n], i), raw, keys, n, i)

SearchKeyAt(raw, keys, at) == IF at = 0 THEN "" ELSE FirstKeyAt(raw, keys, 1, at)

\* the leftmost match from i on: its group, or "" when the pattern matches nowhere
SearchKey(raw, keys, i) ==
    SearchKeyAt(raw, keys, LeastOr({j \in i..Len(raw) : FirstKeyAt(raw, keys, 1, j) # ""}, 0))

\* the brace depth the scan from `start` has after reading index idx
DepthAt(raw, start, idx) ==
    Cardinality({j \in start..idx : Ch(raw, j) = "{"})
    - Cardinality({j \in start..idx : Ch(raw, j) = "}"})

EndAfter(close) == IF close = 0 THEN 0 ELSE close + 1

\* the index after the brace that closes the span opened at `start`, 0 if none
BalancedEnd(raw, start) ==
    EndAfter(LeastOr({j \in start..Len(raw) :
                        Ch(raw, j) = "}" /\ DepthAt(raw, start, j) = 0}, 0))

NoPayload == [ok |-> FALSE]

\* the arguments tier (c) collects: the keys whose pattern matched
ArgumentsOf(found) == JObj([k \in {j \in DOMAIN found : found[j] # ""} |-> JStr(found[k])])

RegexCall(name, arguments) ==
    IF name = "" THEN NoPayload
    ELSE [ok |-> TRUE,
          v |-> JObj([k \in {"tool", "arguments"} |->
                      IF k = "tool" THEN JStr(name) ELSE arguments])]

\* tier (c): regular-expression extraction
RegexPayload(raw) ==
    RegexCall(SearchKey(raw, <<"tool", "name", "tool_name", "skill">>, 1),
              ArgumentsOf([k \in {"command", "file_path", "message", "sessionKey"} |->
                  CASE k = "command" -> SearchKey(raw, <<"command">>, 1)
                    [] k = "file_path" -> SearchKey(raw, <<"file_path", "path">>, 1)
                    [] k = "message" -> SearchKey(raw, <<"message">>, 1)
                    [] k = "sessionKey" -> SearchKey(raw, <<"sessionKey">>, 1)]))

PayloadOf(candidate) == IF candidate.ok THEN [ok |-> TRUE, v |-> candidate.v] ELSE NoPayload

BraceSpanTo(raw, start, end) ==
    IF end = 0 THEN NoPayload ELSE PayloadOf(Loads(SubSeq(raw, start, end - 1)))

BraceSpanFrom(raw, start) == BraceSpanTo(raw, start, BalancedEnd(raw, start))

\* tier (b): the first balanced brace-delimited span
BraceSpanPayload(raw) == BraceSpanFrom(raw, Find(raw, "{"))

TierAfterWhole(raw, whole) ==
    IF whole.ok THEN PayloadOf(whole)
    ELSE IF Find(raw, "{") # 0 THEN BraceSpanPayload(raw)
    ELSE RegexPayload(raw)

\* the payload the three tiers recover from the text, stopping at the first success
TierPayload(raw) == TierAfterWhole(raw, Loads(raw))

\* The backquote of a code fence: a TLA+ string cannot hold that character, so
\* the texts of the model write it as ^.
Tick == "^"

\* the code-fence stripping at the head of parse_tool_call
Unfence(content) ==
    LET raw == Strip(content)
    IN  IF StartsWith(raw, Tick \o Tick \o Tick)
        THEN Strip(ReplaceFirst(StripChar(raw, Tick), "json", ""))
        ELSE raw

\* a or b of Python
PyOr(a, b) == IF Truthy(a) THEN a ELSE b

\* hashable values: membership in a set raises TypeError for the others
Hashable(v) == v.t \notin {"list", "obj"}

NoCall == [some |-> FALSE]
Call(name, arguments) == [some |-> TRUE, name |-> name, arguments |-> arguments]

\* parse_tool_call from the payload on, innermost step first
CallFrom(name, args, allowed_names) ==
    IF ~Truthy(name) THEN Ret(NoCall)
    ELSE IF ~allowed_names.none /\ ~Hashable(name) THEN Raise
    ELSE IF ~IsObj(args) THEN Ret(NoCall)
    ELSE Ret(Call(name, args))

CallOfPayload(p, allowed_names) ==
    CallFrom(PyOr(PyOr(PyOr(Get(p, "tool"), Get(p, "name")), Get(p, "tool_name")),
                  Get(p, "skill")),
             PyOr(PyOr(Get(p, "arguments"), Get(p, "args")), EmptyObj),
             allowed_names)

CallOfTier(payload, allowed_names) ==
    IF ~payload.ok \/ ~IsObj(payload.v) THEN Ret(NoCall)
    ELSE CallOfPayload(payload.v, allowed_names)

\* allowed_names: [none |-> TRUE] for None, else [none |-> FALSE, names |-> set].
\* Returns Ret(NoCall) for None, Ret(Call(..)), or Raise.
parse_tool_call(content, allowed_names) ==
    IF ~Truthy(content) \/ ~IsStr(content) THEN Ret(NoCall)
    ELSE CallOfTier(TierPayload(Unfence(content.s)), allowed_names)

\* the interpreter prefixed to every script, whatever the command begins with
AddInterpreterAlways(c) == IF EndsWith(c, ".py") THEN "python3 " \o c ELSE c

AddInterpreter(c) ==
    IF EndsWith(c, ".py") /\ ~StartsWith(c, "python") THEN "python3 " \o c ELSE c

DropDotPrefix(c) == IF StartsWith(c, ". ") THEN Strip(SubSeq(c, 3, Len(c))) ELSE c

normalize_exec_command(command) ==
    IF ~IsStr(command) THEN "" ELSE AddInterpreter(DropDotPrefix(Strip(command.s)))

RemapExec(tool_call, cmd) ==
    IF cmd # "" THEN Ret(Call(tool_call.name, JObj([k \in {"command"} |-> JStr(cmd)])))
    ELSE Ret(tool_call)

\* remap_tool_call without the test against BLOCKED_TOOL_NAMES
remap_tool_callNoBlock(tool_call) ==
    IF ~tool_call.some THEN Ret(NoCall)
    ELSE IF ~Hashable(tool_call.name) THEN Raise
    ELSE IF tool_call.name = JStr("exec")
    THEN RemapExec(tool_call,
                   normalize_exec_command(GetD(tool_call.arguments, "command", JStr(""))))
    ELSE Ret(tool_call)

\* remap_tool_call(tool_call, latest_user_text, allowed_tool_names); neither
\* of the last two parameters is read
remap_tool_call(tool_call) ==
    IF ~tool_call.some THEN Ret(NoCall)
    ELSE IF ~Hashable(tool_call.name) THEN Raise
    ELSE IF IsStr(tool_call.name) /\ tool_call.name.s \in BLOCKED_TOOL_NAMES THEN Ret(NoCall)
    ELSE IF tool_call.name = JStr("exec")
    THEN RemapExec(tool_call,
                   normalize_exec_command(GetD(tool_call.arguments, "command", JStr(""))))
    ELSE Ret(tool_call)

(***************************************************************************)
(* Response Normalizer.                                                    *)
(***************************************************************************)
Obj2(k1, v1, k2, v2) == JObj([k \in {k1, k2} |-> IF k = k1 THEN v1 ELSE v2])
Obj3(k1, v1, k2, v2, k3, v3) == Put(Obj2(k1, v1, k2, v2), k3, v3)

\* isinstance(created, int) and created > 1e15
IsNanoseconds(created) ==
    created.t = "big" /\ (created.hi > 1000000 \/ (created.hi = 1000000 /\ created.lo > 0))

\* repair (a): the created field, now being int(time.time())
FixCreated(resp, now) ==
    LET created == GetD(resp, "created", JInt(0))
    IN  IF IsNanoseconds(created) THEN Put(resp, "created", JInt(created.hi))
        ELSE IF ~Truthy(created) THEN Put(resp, "created", JInt(now))
        ELSE resp

\* the tool_calls array with the argument mapping itself, not serialized
ToolCallsForMapping(tool_call, now) ==
    JList(<<Obj3("id", JStr("call_" \o IntStr(now) \o "000"),
                 "type", JStr("function"),
                 "function", Obj2("name", tool_call.name,
                                  "arguments", tool_call.arguments))>>)

\* the tool_calls array attached for a recovered call
ToolCallsFor(tool_call, now) ==
    JList(<<Obj3("id", JStr("call_" \o IntStr(now) \o "000"),
                 "type", JStr("function"),
                 "function", Obj2("name", tool_call.name,
                                  "arguments", JStr(Dumps(tool_call.arguments))))>>)

RemapParsed(parsed) == IF Raised(parsed) THEN Raise ELSE remap_tool_call(parsed.v)

\* the tool call of one choice's content: parse, then remap
RecoverCall(content, allowed_names, tool_calls_enabled) ==
    IF ~tool_calls_enabled THEN Ret(NoCall)
    ELSE RemapParsed(parse_tool_call(content, allowed_names))

\* the message sanitize_response rebuilds for a choice
RebuildMessage(msg, content) ==
    Obj3("role", GetD(msg, "role", JStr("assistant")), "content", content, "refusal", JNull)

\* the defaults of a choice without that of logprobs
ChoiceDefaultsNoLogprobs(choice) == SetDefault(choice, "finish_reason", JStr("stop"))

\* the defaults of a choice
ChoiceDefaults(choice) ==
    SetDefault(SetDefault(choice, "finish_reason", JStr("stop")), "logprobs", JNull)

\* the rebuilt message with the recovered call beside the content it came from
MessageForKeepContent(plain, tool_call, now) ==
    IF tool_call.some
    THEN Put(plain, "tool_calls", ToolCallsFor(tool_call, now))
    ELSE plain

\* the rebuilt message, with the recovered call in place of the content
MessageFor(plain, tool_call, now) ==
    IF tool_call.some
    THEN Put(Put(plain, "content", JStr("")), "tool_calls", ToolCallsFor(tool_call, now))
    ELSE plain

\* One pass of the loop over resp["choices"], innermost step first: the
\* repaired choice and the length of its content, or a raise.
NormRecovered(choice, msg, content, tool_call, now) ==
    IF Raised(tool_call) \/ ~HasLen(content) THEN Raise
    ELSE Ret([choice |-> Put(choice, "message",
                             MessageFor(RebuildMessage(msg, content), tool_call.v, now)),
              chars |-> PyLen(content)])

NormContent(choice, msg, content, allowed_names, tool_calls_enabled, now) ==
    NormRecovered(choice, msg, content,
                  RecoverCall(content, allowed_names, tool_calls_enabled), now)

NormMessage(choice, msg, allowed_names, tool_calls_enabled, now) ==
    IF ~IsObj(msg) THEN Raise
    ELSE NormContent(choice, msg, GetD(msg, "content", JStr("")), allowed_names,
                     tool_calls_enabled, now)

NormDefaulted(choice, allowed_names, tool_calls_enabled, now) ==
    NormMessage(choice, GetD(choice, "message", EmptyObj), allowed_names,
                tool_calls_enabled, now)

NormChoice(choice, allowed_names, tool_calls_enabled, now) ==
    IF ~IsObj(choice) THEN Raise
    ELSE NormDefaulted(ChoiceDefaults(choice), allowed_names, tool_calls_enabled, now)

RECURSIVE SumChars(_, _)
SumChars(rs, i) == IF i > Len(rs) THEN 0 ELSE rs[i].v.chars + SumChars(rs, i + 1)

Max(a, b) == IF a > b THEN a ELSE b

EstimateFor(est_tokens) ==
    Obj3("prompt_tokens", JInt(100), "completion_tokens", JInt(est_tokens),
         "total_tokens", JInt(100 + est_tokens))

\* repair (d): the estimated usage block
EstimatedUsage(total_chars) == EstimateFor(Max(1, total_chars \div 4))

WithUsage(resp, total_chars) ==
    IF Has(resp, "usage") THEN resp ELSE Put(resp, "usage", EstimatedUsage(total_chars))

\* repair (b): object and system_fingerprint
FixLabels(resp) ==
    SetDefault(SetDefault(resp, "object", JStr("chat.completion")),
               "system_fingerprint", JStr("hailo-ollama"))

\* the response with its choices repaired; rs holds the result of each pass
NormalizedWith(resp, rs) ==
    IF \E i \in 1..Len(rs) : Raised(rs[i]) THEN Raise
    ELSE Ret(JsonBody(WithUsage(Put(resp, "choices",
                                    JList([i \in 1..Len(rs) |-> rs[i].v.choice])),
                                SumChars(rs, 1))))

\* `for choice in resp["choices"]`: a list is repaired, an empty string or
\* object has nothing to iterate, anything else raises in the loop
NormalizeList(resp, choices, allowed_names, tool_calls_enabled, now) ==
    IF IsList(choices)
    THEN NormalizedWith(resp, [i \in 1..Len(choices.l) |->
                                 NormChoice(choices.l[i], allowed_names, tool_calls_enabled, now)])
    ELSE IF choices.t \in {"str", "obj"} /\ ~Truthy(choices)
    THEN Ret(JsonBody(WithUsage(resp, 0)))
    ELSE Raise

NormalizeChoices(resp, allowed_names, tool_calls_enabled, now) ==
    IF ~Has(resp, "choices") THEN Ret(JsonBody(WithUsage(resp, 0)))
    ELSE NormalizeList(resp, Get(resp, "choices"), allowed_names, tool_calls_enabled, now)

\* sanitize_response(data, allowed_tool_names, tool_calls_enabled, latest_user_text):
\* latest_user_text only reaches remap_tool_call, which does not read it.
sanitize_response(data, allowed_names, tool_calls_enabled, now) ==
    IF ~IsJsonObj(data) THEN Ret(data)
    ELSE NormalizeChoices(FixLabels(FixCreated(data.v, now)), allowed_names,
                          tool_calls_enabled, now)

(***************************************************************************)
(* Streaming Transcoder.                                                   *)
(***************************************************************************)
\* A frame is "data: <payload>\n\n"; the payload is a JSON value, the raw
\* bytes of an unparseable input, or the sentinel [DONE].
DataFrame(v) == [f |-> "data", v |-> v]
RawFrame(body) == [f |-> "raw", body |-> body]
DoneFrame == [f |-> "done"]

\* resp["choices"][0] under `if resp.get("choices")`: [some |-> FALSE] when
\* the guard is false, else the first element, or a raise
FirstChoice(resp) ==
    LET choices == Get(resp, "choices")
    IN  IF ~Truthy(choices) THEN Ret([some |-> FALSE])
        ELSE IF ~IsList(choices) THEN Raise
        ELSE Ret([some |-> TRUE, choice |-> choices.l[1]])

Chunk(resp, now, delta, finish_reason) ==
    JObj([k \in {"id", "object", "created", "model", "system_fingerprint", "choices"} |->
        CASE k = "id" -> GetD(resp, "id", JStr("chatcmpl-0"))
          [] k = "object" -> JStr("chat.completion.chunk")
          [] k = "created" -> GetD(resp, "created", JInt(now))
          [] k = "model" -> GetD(resp, "model", JStr("unknown"))
          [] k = "system_fingerprint" -> GetD(resp, "system_fingerprint", JStr("hailo-ollama"))
          [] k = "choices" ->
               JList(<<JObj([j \in {"index", "delta", "logprobs", "finish_reason"} |->
                        CASE j = "index" -> JInt(0)
                          [] j = "delta" -> delta
                          [] j = "logprobs" -> JNull
                          [] j = "finish_reason" -> finish_reason])>>)])

ContentFrame(resp, now, content) ==
    DataFrame(Chunk(resp, now, JObj([k \in {"content"} |-> content]), JNull))

ToolCallsFrame(resp, now, tool_calls) ==
    DataFrame(Chunk(resp, now, JObj([k \in {"tool_calls"} |-> tool_calls]), JNull))

\* the middle frames with a content frame for an empty content too
MiddleFramesAlwaysContent(resp, now, content, tool_calls) ==
    (IF Truthy(tool_calls) THEN <<ToolCallsFrame(resp, now, tool_calls)>> ELSE <<>>)
    \o (IF ~Truthy(tool_calls) THEN <<ContentFrame(resp, now, content)>> ELSE <<>>)

\* the middle frames of to_sse
MiddleFrames(resp, now, content, tool_calls) ==
    (IF Truthy(tool_calls) THEN <<ToolCallsFrame(resp, now, tool_calls)>> ELSE <<>>)
    \o (IF Truthy(content) /\ ~Truthy(tool_calls)
        THEN <<ContentFrame(resp, now, content)>> ELSE <<>>)

RoleFrame(resp, now) ==
    DataFrame(Chunk(resp, now,
                    Obj3("role", JStr("assistant"), "content", JStr(""), "refusal", JNull),
                    JNull))

FinishFrame(resp, now) ==
    DataFrame(Put(Chunk(resp, now, EmptyObj, JStr("stop")),
                  "usage", GetD(resp, "usage", EmptyObj)))

\* the frames of to_sse for the message of the first choice, EmptyObj when
\* the response has no choice
FramesFor(resp, now, msg) ==
    IF ~IsObj(msg) THEN Raise
    ELSE Ret(<<RoleFrame(resp, now)>>
             \o MiddleFrames(resp, now, GetD(msg, "content", JStr("")), Get(msg, "tool_calls"))
             \o <<FinishFrame(resp, now), DoneFrame>>)

SseOfFirst(resp, now, first) ==
    IF Raised(first) THEN Raise
    ELSE IF ~first.v.some
    THEN Ret(<<RoleFrame(resp, now), FinishFrame(resp, now), DoneFrame>>)
    ELSE IF ~IsObj(first.v.choice) THEN Raise
    ELSE FramesFor(resp, now, GetD(first.v.choice, "message", EmptyObj))

\* to_sse(data): the frames in order, or a raise
to_sse(data, now) ==
    IF ~IsJson(data) THEN Ret(<<RawFrame(data), DoneFrame>>)
    ELSE IF ~IsObj(data.v) THEN Raise
    ELSE SseOfFirst(data.v, now, FirstChoice(data.v))

(***************************************************************************)
(* Model/Capability Facade: the legacy completion conversion.              *)
(***************************************************************************)
\* the choice of the completion with its text left empty
CompletionChoiceNoText(text, finish_reason) ==
    JObj([k \in {"index", "text", "logprobs", "finish_reason"} |->
        CASE k = "index" -> JInt(0)
          [] k = "text" -> JStr("")
          [] k = "logprobs" -> JNull
          [] k = "finish_reason" -> PyOr(finish_reason, JStr("stop"))])

CompletionChoice(text, finish_reason) ==
    JObj([k \in {"index", "text", "logprobs", "finish_reason"} |->
        CASE k = "index" -> JInt(0)
          [] k = "text" -> text
          [] k = "logprobs" -> JNull
          [] k = "finish_reason" -> PyOr(finish_reason, JStr("stop"))])

Completion(resp, now, choice) ==
    JObj([k \in {"id", "object", "created", "model", "choices"} \cup
               (IF Has(resp, "usage") THEN {"usage"} ELSE {}) |->
        CASE k = "id" -> GetD(resp, "id", JStr("cmpl-0"))
          [] k = "object" -> JStr("text_completion")
          [] k = "created" -> GetD(resp, "created", JInt(now))
          [] k = "model" -> GetD(resp, "model", JStr("unknown"))
          [] k = "choices" -> JList(<<choice>>)
          [] k = "usage" -> Get(resp, "usage")])

CompletionOfMessage(resp, now, choice, msg) ==
    IF ~IsObj(msg) THEN Raise
    ELSE Ret(JsonBody(Completion(resp, now,
                 CompletionChoice(PyOr(GetD(msg, "content", JStr("")), JStr("")),
                                  Get(choice, "finish_reason")))))

CompletionOfFirst(resp, now, first) ==
    IF Raised(first) THEN Raise
    ELSE IF ~first.v.some \/ ~Truthy(first.v.choice)
    THEN Ret(JsonBody(Completion(resp, now, CompletionChoice(JStr(""), JNull))))
    ELSE IF ~IsObj(first.v.choice) THEN Raise
    ELSE CompletionOfMessage(resp, now, first.v.choice,
                             GetD(first.v.choice, "message", EmptyObj))

convert_chat_to_completion(data, now) ==
    IF ~IsJsonObj(data) THEN Ret(data)
    ELSE CompletionOfFirst(data.v, now, FirstChoice(data.v))

DEFAULT_MODEL_ID == "qwen2:1.5b"

fake_api_show(body) ==
    LET data == IF IsJson(body) THEN body.v ELSE EmptyObj
    IN  IF ~IsObj(data) THEN Raise
        ELSE LET model == GetD(data, "name", GetD(data, "model", JStr(DEFAULT_MODEL_ID)))
             IN  Ret(JsonBody(JObj([k \in {"modelfile", "parameters", "template", "details",
                                           "model_info"} |->
                    CASE k = "modelfile" -> JStr("FROM " \o PyStr(model))
                      [] k = "parameters" -> JStr("stop <|im_end|>")
                      [] k = "template" -> JStr("{{ .System }}{{ .Prompt }}")
                      [] k = "details" ->
                           JObj([j \in {"parent_model", "format", "family", "families",
                                        "parameter_size", "quantization_level"} |->
                             CASE j = "parent_model" -> JStr("")
                               [] j = "format" -> JStr("gguf")
                               [] j = "family" -> JStr("qwen2")
                               [] j = "families" -> JList(<<JStr("qwen2")>>)
                               [] j = "parameter_size" -> JStr("1.5B")
                               [] j = "quantization_level" -> JStr("Q4_0")])
                      [] k = "model_info" -> EmptyObj])))

RECURSIVE _unique_model_ids(_, _, _)
\* the stripped, non-empty strings of values in first-seen order
_unique_model_ids(values, i, seen) ==
    IF i > Len(values) THEN <<>>
    ELSE LET model_id == IF IsStr(values[i]) THEN Strip(values[i].s) ELSE ""
         IN  IF model_id = "" \/ model_id \in seen
             THEN _unique_model_ids(values, i + 1, seen)
             ELSE <<model_id>> \o _unique_model_ids(values, i + 1, seen \cup {model_id})

RECURSIVE RowNames(_, _, _)
\* the names of the rows of one listing, keys tried in the given order
RowNames(rows, keys, i) ==
    IF i > Len(rows) THEN <<>>
    ELSE LET row == rows[i]
             name == IF IsObj(row)
                     THEN PyOr(PyOr(Get(row, keys[1]), Get(row, keys[2])), Get(row, keys[3]))
                     ELSE row
         IN  (IF IsStr(name) THEN <<name>> ELSE <<>>) \o RowNames(rows, keys, i + 1)

\* tags: the body of the upstream's /api/tags answer, RawBody when the probe
\* failed or answered no JSON
discover_upstream_model_ids(tags) ==
    LET payload == IF IsJsonObj(tags) THEN tags.v ELSE EmptyObj
        rowsOf(k) == IF IsList(Get(payload, k)) THEN Get(payload, k).l ELSE <<>>
        discovered == RowNames(rowsOf("models"), <<"name", "model", "id">>, 1)
                      \o RowNames(rowsOf("data"), <<"id", "name", "model">>, 1)
        models == _unique_model_ids(discovered, 1, {})
    IN  IF models = <<>> THEN <<DEFAULT_MODEL_ID>> ELSE models

fake_v1_model(model_id, now) ==
    JObj([k \in {"id", "object", "created", "owned_by"} |->
        CASE k = "id" -> JStr(model_id)
          [] k = "object" -> JStr("model")
          [] k = "created" -> JInt(now)
          [] k = "owned_by" -> JStr("hailo-ollama")])

fake_v1_models_list(tags, now) ==
    LET ids == discover_upstream_model_ids(tags)
    IN  Obj2("object", JStr("list"),
             "data", JList([i \in 1..Len(ids) |-> fake_v1_model(ids[i], now)]))

(***************************************************************************)
(* Security Gate.                                                          *)
(***************************************************************************)
\* A header of the request: absent, or present with a value.
NoHeader == [has |-> FALSE]
Header(v) == [has |-> TRUE, v |-> v]

_origin_header(headers) ==
    IF headers.origin.has /\ headers.origin.v # "" THEN Strip(headers.origin.v) ELSE ""

_host_header(headers) ==
    IF headers.host.has /\ headers.host.v # "" THEN Lower(Strip(headers.host.v)) ELSE ""

\* _is_origin_allowed admitting a missing Origin whatever CORS_ALLOW_NO_ORIGIN is
_is_origin_allowedIgnoringFlag(origin, allowNoOrigin) ==
    IF origin = "" THEN TRUE ELSE origin \in CORS_ALLOWED_ORIGINS

_is_origin_allowed(origin, allowNoOrigin) ==
    IF origin = "" THEN allowNoOrigin ELSE origin \in CORS_ALLOWED_ORIGINS

_is_host_allowed(host) == IF host = "" THEN FALSE ELSE host \in ALLOWED_HOSTS

Missing(v) == IF v = "" THEN "(missing)" ELSE v

\* _validate_request_security: whether the request passes, and the reason and
\* details of the denial when it does not
_validate_request_security(headers, allowNoOrigin) ==
    LET host == _host_header(headers)
        origin == _origin_header(headers)
    IN  IF ~_is_host_allowed(host)
        THEN [ok |-> FALSE, reason |-> "forbidden host", details |-> Missing(host)]
        ELSE IF ~_is_origin_allowed(origin, allowNoOrigin)
        THEN [ok |-> FALSE, reason |-> "forbidden origin", details |-> Missing(origin)]
        ELSE [ok |-> TRUE, reason |-> "", details |-> ""]

CORS_ALLOW_METHODS == "GET, POST, OPTIONS"
CORS_ALLOW_HEADERS == "Authorization, Content-Type, X-Requested-With"

\* the headers _send_cors_headers adds for the origin
CorsHeaders(origin) ==
    [emitted |-> TRUE, vary |-> "Origin", allow_origin |-> origin,
     allow_methods |-> CORS_ALLOW_METHODS, allow_headers |-> CORS_ALLOW_HEADERS,
     max_age |-> "86400"]

NoCorsHeaders == [emitted |-> FALSE]

\* _send_cors_headers echoing the Origin of any request that has one
_send_cors_headersAnyOrigin(headers) ==
    IF _origin_header(headers) = "" THEN NoCorsHeaders
    ELSE CorsHeaders(_origin_header(headers))

\* _send_cors_headers, called by end_headers for every response: the headers
\* it adds
_send_cors_headers(headers) ==
    IF _origin_header(headers) = "" THEN NoCorsHeaders
    ELSE IF _origin_header(headers) \notin CORS_ALLOWED_ORIGINS THEN NoCorsHeaders
    ELSE CorsHeaders(_origin_header(headers))

\* A response begun on the client connection.
Response(status, ctype, body, headers) ==
    [status |-> status, ctype |-> ctype, body |-> body, cors |-> _send_cors_headers(headers)]

Bytes(b) == [k |-> "bytes", b |-> b]
TextBytes(s) == [k |-> "text", s |-> s]
SseBytes(frames) == [k |-> "sse", frames |-> frames]

_send_json(code, data, headers) == Response(code, "application/json", data, headers)

_deny_request(reason, details, headers) ==
    _send_json(403, Bytes(JsonBody(Obj2("error", JStr(reason), "details", JStr(details)))),
               headers)

(***************************************************************************)
(* The inputs of the handler: request heads, request bodies, the upstream's *)
(* answers.                                                                *)
(***************************************************************************)
\* at most this many requests are served in a run
MaxRequests == 1

\* int(time.time()) throughout a request
Now == 1700000000

Methods == {"GET", "POST", "OPTIONS"}

Paths ==
    {"/v1/chat/completions", "/v1/chat/completions/", "/v1/completions", "/api/show",
     "/v1/models", "/v1/models/qwen2:1.5b/", "/api/chat"}

HostValues == {NoHeader, Header("LocalHost:8081"), Header("evil.example")}

OriginValues ==
    {NoHeader, Header("http://localhost:8787"), Header("http://evil.example"),
     Header("HTTP://LOCALHOST:8787")}

\* the Content-Length header: a number (the length of the body that follows),
\* or text that int() rejects
ContentLengths == {"number", "junk"}

Msg(role, content) == Obj2("role", JStr(role), "content", JStr(content))

FunctionTool(name, description) ==
    Obj2("type", JStr("function"),
         "function", Obj2("name", JStr(name), "description", JStr(description)))

ToolDecls == JList(<<FunctionTool("exec", "Run a shell command"),
                     FunctionTool("read", "Read a file")>>)

ChatBody(messages) == Obj2("model", JStr("qwen2:1.5b"), "messages", JList(messages))

\* a conversation whose latest user message carries an intent marker
IntentTurns ==
    <<Msg("system", "You are OpenClaw."), Msg("user", "hello"), Msg("assistant", "hi"),
      Msg("user", "Run the tool now")>>

\* the same conversation with the marker in an earlier user message only
NoIntentTurns ==
    <<Msg("system", "You are OpenClaw."), Msg("user", "run the tool"), Msg("assistant", "hi"),
      Msg("user", "thanks")>>

Bodies ==
    { NoBody,
      RawBody("garbage"),
      OverLimitBody,
      JsonBody(JList(<<JInt(1)>>)),
      JsonBody(ChatBody(<<Msg("user", "hello")>>)),
      JsonBody(Put(ChatBody(<<Msg("user", "hello")>>), "stream", JBool(TRUE))),
      JsonBody(Put(ChatBody(<<Msg("user", "hello")>>), "stream", JBool(FALSE))),
      JsonBody(Put(ChatBody(<<Msg("user", "hello")>>), "stream", JStr("false"))),
      JsonBody(Put(ChatBody(<<Msg("user", "hello")>>), "stream", JInt(0))),
      JsonBody(Put(Put(Put(Put(ChatBody(IntentTurns), "tools", ToolDecls),
                           "stream", JBool(TRUE)), "max_tokens", JInt(1000)),
                   "store", JBool(TRUE))),
      JsonBody(Put(Put(ChatBody(IntentTurns), "tools", ToolDecls), "stream", JNull)),
      JsonBody(Put(Put(Put(ChatBody(NoIntentTurns), "tools", ToolDecls),
                       "max_completion_tokens", JInt(50)), "n", JInt(3))),
      JsonBody(Put(Put(ChatBody(NoIntentTurns), "tools", ToolDecls), "stream", JBool(TRUE))),
      JsonBody(Obj2("model", JStr("qwen2:1.5b"), "messages", JStr("hi"))),
      JsonBody(Obj3("model", JStr("qwen2:1.5b"), "prompt", JStr("say hi"),
                    "max_tokens", JInt(500))),
      JsonBody(Obj2("name", JStr("qwen2:1.5b"), "stream", JBool(TRUE))) }

AssistantChoice(content) ==
    Obj2("index", JInt(0), "message", Msg("assistant", content))

Reply(choices) ==
    JObj([k \in {"id", "model", "created", "choices"} |->
        CASE k = "id" -> JStr("chatcmpl-7")
          [] k = "model" -> JStr("qwen2:1.5b")
          [] k = "created" -> JInt(Now - 5)
          [] k = "choices" -> JList(choices)])

ExecText == "{\"tool\": \"exec\", \"arguments\": {\"command\": \"bash -lc \\\"ls\\\"\"}}"
ReadText == "Sure. {\"tool\": \"read\", \"arguments\": {\"path\": \"/etc/passwd\"}}"
SearchText == "tool: \"search\", \"query\": \"cats\""

\* a structured tool_calls entry, as an upstream could send it
StructuredCall(name) ==
    JList(<<Obj3("id", JStr("call_1"), "type", JStr("function"),
                 "function", Obj2("name", JStr(name), "arguments", JStr("{}")))>>)

\* the bodies of the upstream's 200 answers
Replies ==
    { JsonBody(Reply(<<AssistantChoice("hello")>>)),
      JsonBody(Reply(<<AssistantChoice("")>>)),
      JsonBody(Obj2("created", JBig(1731000000, 123456789),
                    "choices", JList(<<Obj2("message", Obj2("content", JStr(ExecText),
                                                            "extra", JInt(1)),
                                            "finish_reason", JStr("length"))>>))),
      JsonBody(Reply(<<AssistantChoice(ReadText), AssistantChoice(ExecText)>>)),
      JsonBody(Reply(<<AssistantChoice(SearchText)>>)),
      JsonBody(Reply(<<Obj2("index", JInt(0),
                            "message", Put(Msg("assistant", "done"),
                                           "tool_calls", StructuredCall("write")))>>)),
      JsonBody(EmptyObj),
      JsonBody(Obj2("id", JStr("x"), "choices", JInt(5))),
      JsonBody(JList(<<JInt(1)>>)),
      RawBody("upstream text") }

\* the outcomes of the one upstream call: a 2xx answer ("ok"), an HTTPError,
\* a TimeoutError while the answer is read ("timeout"), a URLError wrapping
\* the timeout of the connect ("connect_timeout") or a refused connection
Outcomes ==
    { [kind |-> "ok", status |-> 200, body |-> b] : b \in Replies }
    \cup { [kind |-> "http_error", status |-> 500,
            body |-> JsonBody(Reply(<<Obj2("index", JInt(0),
                                           "message", Put(Msg("assistant", "x"), "tool_calls",
                                                          StructuredCall("read")))>>))],
           [kind |-> "http_error", status |-> 404, body |-> RawBody("not found")],
           [kind |-> "timeout", status |-> 0, body |-> NoBody],
           [kind |-> "connect_timeout", status |-> 0, body |-> NoBody],
           [kind |-> "unreachable", status |-> 0, body |-> NoBody] }

\* what becomes of a write on the client connection: written, or refused with
\* BrokenPipeError or ConnectionResetError because the client has left
WriteOutcomes == {"sent", "pipe", "reset"}

\* the answers of the upstream's /api/tags to the list-models probe
TagsReplies ==
    { RawBody("probe failed"),
      JsonBody(JObj([k \in {"models"} |->
                 JList(<<Obj2("name", JStr("qwen2:1.5b"), "size", JInt(1)),
                         JStr(" llama3 "), JStr("qwen2:1.5b")>>)])) }

\* the environment's configuration
\* the environment's configuration; disk tells whether the files of the trace
\* directory can be written
Configs == [allowNoOrigin : BOOLEAN, maxHistory : {DEFAULT_MAX_HISTORY_MESSAGES},
            trace : BOOLEAN, disk : {"ok"}, skills : {<<>>}]

(***************************************************************************)
(* The handler: ProxyHandler.do_GET, do_POST, do_OPTIONS and _proxy.       *)
(***************************************************************************)
NoRequest == [method |-> "", path |-> "", headers |-> [host |-> NoHeader, origin |-> NoHeader],
              clen |-> ""]

\* the locals of _proxy before its first assignment
NoLocals ==
    [trace_id |-> [time |-> 0, seq |-> 0],
     path |-> "",
     body |-> NoBody,
     original_body |-> NoBody,
     allowed_tool_names |-> {},
     latest_user_text |-> "",
     allow_tool_calls |-> FALSE,
     is_chat |-> FALSE,
     is_completion |-> FALSE,
     client_wants_stream |-> JBool(FALSE),
     upstream_path |-> "",
     data |-> NoBody,
     escaped |-> FALSE]

NoUpstream == [kind |-> "none", status |-> 0, body |-> NoBody]

Init ==
    /\ cfg \in Configs
    /\ traceSeq = 0
    /\ served = 0
    /\ pc = "idle"
    /\ req = NoRequest
    /\ loc = NoLocals
    /\ up = NoUpstream
    /\ out = <<>>
    /\ events = <<>>

\* _write_trace without the `except Exception: pass` that ends it
_write_traceUnguarded(trace_id, suffix) ==
    IF ~cfg.trace THEN Ret(<<>>)
    ELSE IF cfg.disk = "ok" THEN Ret(<<[e |-> "trace", id |-> trace_id, suffix |-> suffix]>>)
    ELSE Raise

\* _write_trace(trace_id, suffix, body): the artifact written, nothing when
\* tracing is disabled or the write fails; the call returns in every case
_write_trace(trace_id, suffix) ==
    IF ~cfg.trace THEN Ret(<<>>)
    ELSE IF cfg.disk = "ok" THEN Ret(<<[e |-> "trace", id |-> trace_id, suffix |-> suffix]>>)
    ELSE Ret(<<>>)

FileEvents(files) ==
    SelectSeq(<<[e |-> "file", path |-> ToolsDump], [e |-> "file", path |-> SysPromptDump],
                [e |-> "file", path |-> SanitizedPromptDump]>>,
              LAMBDA ev : ev.path \in files)

\* f"{int(time.time() * 1000)}-{next(_TRACE_SEQ):06d}" for a clock reading and
\* the value next() returns
TraceId(time, seq) == [time |-> time, seq |-> seq]

\* next() on a count(1) recreated by every call
next_TRACE_SEQFresh(n) == 1

\* next(_TRACE_SEQ) on the counter that has handed out n values: the value
\* returned, which is also the number handed out afterwards
next_TRACE_SEQ(n) == n + 1

\* _next_trace_id(): the clock and next(_TRACE_SEQ)
_next_trace_id(seq) == TraceId(Now, next_TRACE_SEQ(seq))

\* do_GET, do_POST, do_OPTIONS up to the gate: a request head arrives, the
\* handler draws its trace id and strips the path.
Accept(method, path, host, origin, clen) ==
    /\ pc = "idle"
    /\ served < MaxRequests
    /\ req' = [method |-> method, path |-> path,
               headers |-> [host |-> host, origin |-> origin], clen |-> clen]
    /\ traceSeq' = next_TRACE_SEQ(traceSeq)
    /\ loc' = [NoLocals EXCEPT !.trace_id = _next_trace_id(traceSeq),
                               !.path = RStripChar(path, "/")]
    /\ pc' = "gate"
    /\ UNCHANGED <<cfg, served, up, out, events>>

\* a handler that ends without a response: the exception left _proxy
EscapeAfter(evs) ==
    /\ loc' = [loc EXCEPT !.escaped = TRUE]
    /\ events' = events \o evs
    /\ pc' = "done"
    /\ out' = out

Escape == EscapeAfter(<<>>)

\* the response is written in full
Finish(response, evs) ==
    /\ out' = Append(out, response)
    /\ events' = events \o evs
    /\ pc' = "done"
    /\ loc' = loc

\* a write refused by the connection
WriteFailed(response, wr) == [e |-> "write-failed", status |-> response.status, error |-> wr]

\* the exception of a refused write caught by the handler: nothing more is
\* written for the request
Absorb(evs) ==
    /\ loc' = loc
    /\ events' = events \o evs
    /\ pc' = "done"
    /\ out' = out

\* a response written where no except clause covers the write: the gate's
\* 403, the preflight's 204, the facade's answers, the relayed upstream error
SendOrEscape(response, evs, wr) ==
    IF wr = "sent" THEN Finish(response, evs)
    ELSE EscapeAfter(evs \o <<WriteFailed(response, wr)>>)

\* a response written under `except BrokenPipeError: pass`: the 504 and the 502
SendGuarded(response, evs, wr) ==
    IF wr = "sent" THEN Finish(response, evs)
    ELSE IF wr = "pipe" THEN Absorb(evs \o <<WriteFailed(response, wr)>>)
    ELSE EscapeAfter(evs \o <<WriteFailed(response, wr)>>)

\* the steps after the verdict, without the return that follows a denial
GateOnNoReturn(verdict, wr) ==
    IF ~verdict.ok
    THEN /\ out' = Append(out, _deny_request(verdict.reason, verdict.details, req.headers))
         /\ pc' = "read"
         /\ UNCHANGED <<loc, events>>
    ELSE IF req.method = "OPTIONS"
    THEN SendOrEscape(Response(204, "", Bytes(NoBody), req.headers), <<>>, wr)
    ELSE /\ pc' = "read"
         /\ UNCHANGED <<loc, events, out>>

\* the steps of the handler after the verdict of the gate
GateOn(verdict, wr) ==
    IF ~verdict.ok
    THEN SendOrEscape(_deny_request(verdict.reason, verdict.details, req.headers), <<>>, wr)
    ELSE IF req.method = "OPTIONS"
    THEN SendOrEscape(Response(204, "", Bytes(NoBody), req.headers), <<>>, wr)
    ELSE /\ pc' = "read"
         /\ UNCHANGED <<loc, events, out>>

\* _validate_request_security, and the rest of do_OPTIONS
Gate(wr) ==
    /\ pc = "gate"
    /\ GateOn(_validate_request_security(req.headers, cfg.allowNoOrigin), wr)
    /\ UNCHANGED <<cfg, traceSeq, served, req, up>>

\* the body read from the connection
ReadEvent(body) == IF NonEmpty(body) THEN <<[e |-> "read"]>> ELSE <<>>

\* _proxy from the Content-Length header to the raw-request trace
ReadBody(body) ==
    /\ pc = "read"
    /\ IF req.clen = "junk" THEN Escape
       ELSE IF Raised(_write_trace(loc.trace_id, "client-request.raw"))
       THEN EscapeAfter(ReadEvent(body))
       ELSE LET latest_user_text == IF NonEmpty(body) THEN _extract_latest_user_text(body)
                                    ELSE ""
            IN  /\ loc' = [loc EXCEPT
                       !.body = body,
                       !.original_body = body,
                       !.allowed_tool_names = IF NonEmpty(body) THEN _extract_tool_names(body)
                                              ELSE {},
                       !.latest_user_text = latest_user_text,
                       !.allow_tool_calls = _has_explicit_tool_intent(latest_user_text)]
                /\ pc' = "route"
                /\ events' = events \o ReadEvent(body)
                             \o _write_trace(loc.trace_id, "client-request.raw").v
                /\ out' = out
    /\ UNCHANGED <<cfg, traceSeq, served, req, up>>

\* the legacy rewrite of _proxy: the chat payload built from a completion payload
LegacyChatPayload(payload) ==
    JObj([k \in {"model", "messages", "temperature", "top_p", "max_tokens", "stream"} |->
        CASE k = "model" -> Get(payload, "model")
          [] k = "messages" ->
               JList(<<Obj2("role", JStr("user"),
                            "content", PyOr(GetD(payload, "prompt", JStr("")), JStr("")))>>)
          [] k = "temperature" -> Get(payload, "temperature")
          [] k = "top_p" -> Get(payload, "top_p")
          [] k = "max_tokens" -> Get(payload, "max_tokens")
          [] k = "stream" -> JBool(FALSE)])

\* the stream flag read as `stream is True`
ClientWantsStreamIsTrue(body) ==
    IF IsJsonObj(body) THEN JBool(Get(body.v, "stream") = JBool(TRUE)) ELSE JBool(FALSE)

\* json.loads(body).get("stream", False) under `except Exception: pass`
ClientWantsStream(body) ==
    IF IsJsonObj(body) THEN GetD(body.v, "stream", JBool(FALSE)) ELSE JBool(FALSE)

\* the fake /api/show of _proxy
RouteShow(wr) ==
    /\ pc = "route"
    /\ loc.path = "/api/show" /\ req.method = "POST"
    /\ IF Raised(fake_api_show(loc.body)) THEN Escape
       ELSE IF Raised(_write_trace(loc.trace_id, "proxy-response.fake-api-show")) THEN Escape
       ELSE SendOrEscape(_send_json(200, Bytes(fake_api_show(loc.body).v), req.headers),
                         _write_trace(loc.trace_id, "proxy-response.fake-api-show").v, wr)
    /\ UNCHANGED <<cfg, traceSeq, served, req, up>>

\* discover_upstream_model_ids' request for the upstream's /api/tags
Probe == <<[e |-> "probe", path |-> "/api/tags"]>>

\* the model list of _proxy, with the probe of the upstream's /api/tags
RouteModels(tags, wr) ==
    /\ pc = "route"
    /\ ~(loc.path = "/api/show" /\ req.method = "POST")
    /\ loc.path = "/v1/models" /\ req.method = "GET"
    /\ IF Raised(_write_trace(loc.trace_id, "proxy-response.fake-v1-models"))
       THEN EscapeAfter(Probe)
       ELSE SendOrEscape(_send_json(200, Bytes(JsonBody(fake_v1_models_list(tags, Now))),
                                    req.headers),
                         Probe \o _write_trace(loc.trace_id, "proxy-response.fake-v1-models").v,
                         wr)
    /\ UNCHANGED <<cfg, traceSeq, served, req, up>>

\* the model detail of _proxy
RouteModel(wr) ==
    /\ pc = "route"
    /\ StartsWith(loc.path, "/v1/models/") /\ req.method = "GET"
    /\ LET model_id == Strip(SubSeq(loc.path, Len("/v1/models/") + 1, Len(loc.path)))
       IN  IF model_id = ""
           THEN SendOrEscape(_send_json(404, Bytes(JsonBody(JObj([k \in {"error"} |->
                                                         JStr("model not found")]))),
                                        req.headers), <<>>, wr)
           ELSE IF Raised(_write_trace(loc.trace_id, "proxy-response.fake-v1-model"))
           THEN Escape
           ELSE SendOrEscape(_send_json(200, Bytes(JsonBody(fake_v1_model(model_id, Now))),
                                        req.headers),
                             _write_trace(loc.trace_id, "proxy-response.fake-v1-model").v, wr)
    /\ UNCHANGED <<cfg, traceSeq, served, req, up>>

\* the facade without its /api/show
IsFacadeModelsOnly ==
    \/ loc.path = "/v1/models" /\ req.method = "GET"
    \/ StartsWith(loc.path, "/v1/models/") /\ req.method = "GET"

IsFacade ==
    \/ loc.path = "/api/show" /\ req.method = "POST"
    \/ loc.path = "/v1/models" /\ req.method = "GET"
    \/ StartsWith(loc.path, "/v1/models/") /\ req.method = "GET"

\* _proxy from the stream detection to the sanitized-request trace
Route ==
    /\ pc = "route"
    /\ ~IsFacade
    /\ LET is_completion == loc.path = "/v1/completions" /\ req.method = "POST"
           rewritten == is_completion /\ IsJsonObj(loc.body)
           body1 == IF rewritten THEN JsonBody(LegacyChatPayload(loc.body.v)) ELSE loc.body
           is_chat == (loc.path = "/v1/chat/completions" /\ req.method = "POST") \/ rewritten
           sanitizing == is_chat /\ NonEmpty(body1)
           sanitized == IF sanitizing
                        THEN sanitize_chat_body(body1, loc.allow_tool_calls, cfg.maxHistory,
                                                cfg.skills)
                        ELSE Ret([body |-> body1, files |-> {}])
       IN  IF is_completion /\ OverLimit(loc.body) THEN Escape
           ELSE IF Raised(sanitized) THEN Escape
           ELSE IF Raised(_write_trace(loc.trace_id, "upstream-request.body"))
           THEN EscapeAfter((IF sanitizing THEN <<[e |-> "sanitize"]>> ELSE <<>>)
                            \o FileEvents(sanitized.v.files))
           ELSE /\ loc' = [loc EXCEPT
                       !.is_chat = is_chat,
                       !.is_completion = is_completion,
                       !.client_wants_stream = IF sanitizing THEN ClientWantsStream(body1)
                                               ELSE JBool(FALSE),
                       !.body = sanitized.v.body,
                       !.upstream_path = IF is_completion THEN "/v1/chat/completions"
                                         ELSE req.path]
                /\ events' = events
                             \o (IF sanitizing THEN <<[e |-> "sanitize"]>> ELSE <<>>)
                             \o FileEvents(sanitized.v.files)
                             \o _write_trace(loc.trace_id, "upstream-request.body").v
                /\ pc' = "forward"
                /\ out' = out
    /\ UNCHANGED <<cfg, traceSeq, served, req, up>>

\* _send_json(502, "Proxy error: %s" % e)
BadGateway == _send_json(502, TextBytes("Proxy error"), req.headers)

\* the files written for a chat request answered with a 500
ErrorDumps ==
    <<[e |-> "file", path |-> "/tmp/hailo-proxy-500-raw-" \o IntStr(Now) \o ".json"],
      [e |-> "file", path |-> "/tmp/hailo-proxy-500-sanitized-" \o IntStr(Now) \o ".json"]>>

\* the one urlopen call of the request
UpstreamCall ==
    <<[e |-> "upstream", method |-> req.method, path |-> loc.upstream_path,
       body |-> loc.body]>>

\* the handler of `except urllib.error.HTTPError` answering with a 502 of its own
RelayAsBadGateway(outcome, evs, wr) == SendOrEscape(BadGateway, evs, wr)

\* the handler of `except urllib.error.HTTPError`: the upstream's status and
\* body relayed
Relay(outcome, evs, wr) ==
    IF Raised(_write_trace(loc.trace_id, "upstream-response.error")) THEN EscapeAfter(evs)
    ELSE SendOrEscape(Response(outcome.status, "upstream", Bytes(outcome.body), req.headers),
                      evs \o _write_trace(loc.trace_id, "upstream-response.error").v
                      \o (IF loc.is_chat /\ outcome.status = 500 THEN ErrorDumps ELSE <<>>),
                      wr)

\* the handler of `except TimeoutError`
GatewayTimeout(evs, wr) ==
    SendGuarded(_send_json(504, Bytes(JsonBody(JObj([k \in {"error"} |->
                                          JStr("upstream timeout")]))), req.headers),
                evs, wr)

\* the handler of `except Exception`
ProxyError(evs, wr) == SendGuarded(BadGateway, evs, wr)

\* the except clause that takes a failure of urlopen or of resp.read()
FailedCall(outcome, evs, wr) ==
    CASE outcome.kind = "http_error" -> Relay(outcome, evs, wr)
      [] outcome.kind = "timeout" -> GatewayTimeout(evs, wr)
      [] OTHER -> ProxyError(evs, wr)

\* urllib.request.urlopen(req, timeout=UPSTREAM_TIMEOUT) and resp.read(), with
\* the except clauses that answer its failures
Forward(outcome, wr) ==
    /\ pc = "forward"
    /\ up' = outcome
    /\ IF outcome.kind # "ok" THEN FailedCall(outcome, UpstreamCall, wr)
       ELSE IF Raised(_write_trace(loc.trace_id, "upstream-response.raw"))
       THEN ProxyError(UpstreamCall, wr)
       ELSE /\ loc' = [loc EXCEPT !.data = outcome.body]
            /\ events' = events \o UpstreamCall
                         \o _write_trace(loc.trace_id, "upstream-response.raw").v
            /\ pc' = "normalize"
            /\ out' = out
    /\ UNCHANGED <<cfg, traceSeq, served, req>>

\* sanitize_response, convert_chat_to_completion and the final trace
Normalize(wr) ==
    /\ pc = "normalize"
    /\ LET normalized == IF loc.is_chat
                         THEN sanitize_response(loc.data,
                                  [none |-> FALSE, names |-> loc.allowed_tool_names],
                                  loc.allow_tool_calls, Now)
                         ELSE Ret(loc.data)
           converted == IF Raised(normalized) \/ ~loc.is_completion THEN normalized
                        ELSE convert_chat_to_completion(normalized.v, Now)
       IN  IF Raised(converted) THEN ProxyError(<<>>, wr)
           ELSE IF Raised(_write_trace(loc.trace_id, "proxy-response.final"))
           THEN ProxyError(IF loc.is_chat THEN <<[e |-> "normalize"]>> ELSE <<>>, wr)
           ELSE /\ loc' = [loc EXCEPT !.data = converted.v]
                /\ events' = events
                             \o (IF loc.is_chat THEN <<[e |-> "normalize"]>> ELSE <<>>)
                             \o _write_trace(loc.trace_id, "proxy-response.final").v
                /\ pc' = "respond"
                /\ out' = out
    /\ UNCHANGED <<cfg, traceSeq, served, req, up>>

\* a response written inside the try statement: a BrokenPipeError is taken by
\* `except BrokenPipeError`, any other error by `except Exception`, whose 502
\* the dead connection refuses in turn
SendInTry(response, evs, wr) ==
    IF wr = "sent" THEN Finish(response, evs)
    ELSE IF wr = "pipe" THEN Absorb(evs \o <<WriteFailed(response, wr)>>)
    ELSE Absorb(evs \o <<WriteFailed(response, wr), WriteFailed(BadGateway, "pipe")>>)

\* the success path without the trace of the event stream
RespondWithoutSseTrace(wr) ==
    /\ pc = "respond"
    /\ IF loc.is_chat /\ Truthy(loc.client_wants_stream) /\ ~loc.is_completion
       THEN IF Raised(to_sse(loc.data, Now)) THEN ProxyError(<<>>, wr)
            ELSE SendInTry(Response(200, "text/event-stream",
                                    SseBytes(to_sse(loc.data, Now).v), req.headers),
                           <<[e |-> "transcode"]>>, wr)
       ELSE SendInTry(_send_json(up.status, Bytes(loc.data), req.headers), <<>>, wr)
    /\ UNCHANGED <<cfg, traceSeq, served, req, up>>

\* the response of the success path: the event stream or the JSON body
Respond(wr) ==
    /\ pc = "respond"
    /\ IF loc.is_chat /\ Truthy(loc.client_wants_stream) /\ ~loc.is_completion
       THEN LET sse_data == to_sse(loc.data, Now)
            IN  IF Raised(sse_data) THEN ProxyError(<<>>, wr)
                ELSE IF Raised(_write_trace(loc.trace_id, "proxy-response.sse"))
                THEN ProxyError(<<[e |-> "transcode"]>>, wr)
                ELSE SendInTry(Response(200, "text/event-stream", SseBytes(sse_data.v),
                                        req.headers),
                               <<[e |-> "transcode"]>>
                               \o _write_trace(loc.trace_id, "proxy-response.sse").v, wr)
       ELSE SendInTry(_send_json(up.status, Bytes(loc.data), req.headers), <<>>, wr)
    /\ UNCHANGED <<cfg, traceSeq, served, req, up>>

\* the handler returns; the worker takes the next request
Reset ==
    /\ pc = "done"
    /\ served' = served + 1
    /\ pc' = "idle"
    /\ req' = NoRequest
    /\ loc' = NoLocals
    /\ up' = NoUpstream
    /\ out' = <<>>
    /\ events' = <<>>
    /\ UNCHANGED <<cfg, traceSeq>>

\* the handler with a client that stays until it is answered
Next ==
    \/ \E method \in Methods, path \in Paths, host \in HostValues, origin \in OriginValues,
          clen \in ContentLengths : Accept(method, path, host, origin, clen)
    \/ Gate("sent")
    \/ \E body \in Bodies : ReadBody(body)
    \/ RouteShow("sent")
    \/ \E tags \in TagsReplies : RouteModels(tags, "sent")
    \/ RouteModel("sent")
    \/ Route
    \/ \E outcome \in Outcomes : Forward(outcome, "sent")
    \/ Normalize("sent")
    \/ Respond("sent")
    \/ Reset

Spec == Init /\ [][Next]_vars

(***************************************************************************)
(* The handler under faults: a client that may have left when the response *)
(* is written, a trace directory that may refuse every write.              *)
(***************************************************************************)
FaultConfigs ==
    { c \in [allowNoOrigin : {TRUE}, maxHistory : {DEFAULT_MAX_HISTORY_MESSAGES},
             trace : BOOLEAN, disk : {"ok", "full"}, skills : {<<>>}] :
        c.disk = "full" => c.trace }

FaultPaths ==
    {"/v1/chat/completions", "/v1/completions", "/api/show", "/v1/models",
     "/v1/models/qwen2:1.5b", "/api/chat"}

FaultHosts == {Header("localhost:8081"), Header("evil.example")}

FaultOrigins == {NoHeader, Header("http://localhost:8787")}

FaultBodies ==
    { NoBody,
      RawBody("garbage"),
      JsonBody(Put(Put(ChatBody(IntentTurns), "tools", ToolDecls), "stream", JBool(TRUE))),
      JsonBody(Obj2("model", JStr("qwen2:1.5b"), "prompt", JStr("say hi"))) }

FaultOutcomes ==
    { o \in Outcomes :
        o.kind = "ok" =>
            o.body \in { JsonBody(Reply(<<AssistantChoice("hello")>>)),
                         JsonBody(Reply(<<AssistantChoice(ReadText), AssistantChoice(ExecText)>>)),
                         JsonBody(Obj2("id", JStr("x"), "choices", JInt(5))) } }

InitFaults ==
    /\ cfg \in FaultConfigs
    /\ traceSeq = 0
    /\ served = 0
    /\ pc = "idle"
    /\ req = NoRequest
    /\ loc = NoLocals
    /\ up = NoUpstream
    /\ out = <<>>
    /\ events = <<>>

NextFaults ==
    \/ \E method \in Methods, path \in FaultPaths, host \in FaultHosts,
          origin \in FaultOrigins : Accept(method, path, host, origin, "number")
    \/ \E wr \in WriteOutcomes : Gate(wr)
    \/ \E body \in FaultBodies : ReadBody(body)
    \/ \E wr \in WriteOutcomes : RouteShow(wr)
    \/ \E tags \in TagsReplies, wr \in WriteOutcomes : RouteModels(tags, wr)
    \/ \E wr \in WriteOutcomes : RouteModel(wr)
    \/ Route
    \/ \E outcome \in FaultOutcomes, wr \in WriteOutcomes : Forward(outcome, wr)
    \/ \E wr \in WriteOutcomes : Normalize(wr)
    \/ \E wr \in WriteOutcomes : Respond(wr)
    \/ Reset

SpecFaults == InitFaults /\ [][NextFaults]_vars

(***************************************************************************)
(* simplify_messages on its own: every list of up to MaxMsgs messages,     *)
(* under every history limit up to MaxHistory.  The argument is held in    *)
(* loc.body, the result in loc.data.                                       *)
(***************************************************************************)
MaxMsgs == 3
MaxHistory == 2

Roles == {"user", "assistant", "system", "tool"}

\* the messages with the given roles; the content of each tells its position
MessagesOf(roles) == [i \in 1..Len(roles) |-> Msg(roles[i], "m" \o DigitStr(i))]

InitSimplify ==
    /\ cfg \in [allowNoOrigin : {TRUE}, maxHistory : 0..MaxHistory, trace : {FALSE},
                disk : {"ok"}, skills : {<<>>}]
    /\ \E n \in 0..MaxMsgs : \E roles \in [1..n -> Roles] :
          loc = [NoLocals EXCEPT !.body = JsonBody(JList(MessagesOf(roles)))]
    /\ traceSeq = 0
    /\ served = 0
    /\ pc = "messages"
    /\ req = NoRequest
    /\ up = NoUpstream
    /\ out = <<>>
    /\ events = <<>>

SimplifyTo(simplified) ==
    IF Raised(simplified)
    THEN /\ pc' = "raised"
         /\ UNCHANGED <<loc, events>>
    ELSE /\ pc' = "simplified"
         /\ loc' = [loc EXCEPT !.data = JsonBody(simplified.v.msgs)]
         /\ events' = FileEvents(simplified.v.files)

\* sanitized["messages"] = simplify_messages(sanitized["messages"], tool_prompt)
Simplify ==
    /\ pc = "messages"
    /\ SimplifyTo(simplify_messages(loc.body.v, "", cfg.maxHistory, cfg.skills))
    /\ UNCHANGED <<cfg, traceSeq, served, req, up, out>>

NextSimplify == Simplify

SpecSimplify == InitSimplify /\ [][NextSimplify]_vars

(***************************************************************************)
(* sanitize_response and to_sse on their own: the reply is held in         *)
(* up.body, the normalized response in loc.data, and the result of the     *)
(* second pass or of the transcoding in out.                               *)
(***************************************************************************)
\* values of the created field: nanoseconds, the threshold 1e15 and the
\* integer above it, milliseconds, seconds, zero, null, a string, true
CreatedValues ==
    { JBig(1731000000, 0), JBig(1000000, 0), JBig(1000000, 1), JBig(1731, 0),
      JInt(1731000000), JInt(0), JNull, JStr("1731000000"), JBool(TRUE) }

\* replies that carry their own usage block, a list-structured content, a
\* string where the choices are expected
MoreReplies ==
    { JsonBody(Put(Reply(<<AssistantChoice("hello")>>), "usage",
                   Obj3("prompt_tokens", JInt(7), "completion_tokens", JInt(2),
                        "total_tokens", JInt(9)))),
      JsonBody(Reply(<<Obj2("index", JInt(0),
                            "message", Obj2("role", JStr("assistant"),
                                            "content", JList(<<JStr("a"), JStr("b")>>)))>>)),
      JsonBody(Obj2("model", JStr("qwen2:1.5b"), "choices", JStr(""))),
      JsonBody(Reply(<<Obj2("message", Msg("tool", ExecText), "logprobs", JInt(3))>>)),
      JsonBody(Reply(<<Obj2("index", JInt(0),
                            "message", JObj([k \in {"role"} |-> JStr("assistant")])),
                       AssistantChoice("{\"tool\": \"exec\", \"arguments\": "
                                       \o "{\"command\": \"script.py\", \"timeout\": 5}}")>>)) }
    \cup { JsonBody(Put(Reply(<<AssistantChoice("hello")>>), "created", created)) :
               created \in CreatedValues }

AllowedNameSets == {{}, {"exec", "read"}}

InitResponse ==
    /\ cfg \in [allowNoOrigin : {TRUE}, maxHistory : {DEFAULT_MAX_HISTORY_MESSAGES},
                trace : {FALSE}, disk : {"ok"}, skills : {<<>>}]
    /\ \E data \in Replies \cup MoreReplies :
          up = [kind |-> "ok", status |-> 200, body |-> data]
    /\ \E names \in AllowedNameSets, enabled \in BOOLEAN :
          loc = [NoLocals EXCEPT !.is_chat = TRUE, !.allowed_tool_names = names,
                                 !.allow_tool_calls = enabled]
    /\ traceSeq = 0
    /\ served = 0
    /\ pc = "reply"
    /\ req = NoRequest
    /\ out = <<>>
    /\ events = <<>>

NormalizedTo(normalized) ==
    IF Raised(normalized)
    THEN /\ pc' = "raised"
         /\ loc' = loc
    ELSE /\ pc' = "normalized"
         /\ loc' = [loc EXCEPT !.data = normalized.v]

\* data = sanitize_response(data, allowed_tool_names, tool_calls_enabled, ..)
FirstPass ==
    /\ pc = "reply"
    /\ NormalizedTo(sanitize_response(up.body,
                                      [none |-> FALSE, names |-> loc.allowed_tool_names],
                                      loc.allow_tool_calls, Now))
    /\ UNCHANGED <<cfg, traceSeq, served, req, up, out, events>>

\* sanitize_response applied to its own result, with the same settings
SecondPass ==
    /\ pc = "normalized"
    /\ pc' = "renormalized"
    /\ out' = <<sanitize_response(loc.data,
                                  [none |-> FALSE, names |-> loc.allowed_tool_names],
                                  loc.allow_tool_calls, Now)>>
    /\ UNCHANGED <<cfg, traceSeq, served, req, loc, up, events>>

\* sse_data = to_sse(data)
Transcode ==
    /\ pc = "normalized"
    /\ pc' = "transcoded"
    /\ out' = <<to_sse(loc.data, Now)>>
    /\ UNCHANGED <<cfg, traceSeq, served, req, loc, up, events>>

NextResponse == FirstPass \/ SecondPass \/ Transcode

SpecResponse == InitResponse /\ [][NextResponse]_vars

(***************************************************************************)
(* Properties of the security gate (specification Spec).                   *)
(***************************************************************************)
\* what the handler did for the request in hand, the refused writes aside
Work(evs) == SelectSeq(evs, LAMBDA ev : ev.e # "write-failed")

\* the write of a response of the given status was refused by the connection
Refused(status) ==
    \E i \in 1..Len(events) : events[i].e = "write-failed" /\ events[i].status = status

\* the request in hand was answered by the gate's denial, or would have been
\* had the client stayed
Denied ==
    /\ up.kind = "none"
    /\ \/ Len(out) = 1 /\ out[1].status = 403
       \/ out = <<>> /\ Refused(403)

\* the Host of the request is missing or outside the host allow-set
HostRefused ==
    \/ ~req.headers.host.has
    \/ Lower(Strip(req.headers.host.v)) \notin ALLOWED_HOSTS

\* the Origin of the request, "" when there is none
OriginOf == IF req.headers.origin.has THEN Strip(req.headers.origin.v) ELSE ""

OriginRefused ==
    \/ OriginOf # "" /\ OriginOf \notin CORS_ALLOWED_ORIGINS
    \/ OriginOf = "" /\ ~cfg.allowNoOrigin

\* C1: once the gate has judged a request of any method, the request is
\* answered with the 403 denial exactly when its Host is missing or not in
\* the host allow-set, or its Origin is non-empty and not in the origin
\* allow-set, or its Origin is empty and "allow no origin" is disabled.
C1_GateRejectsExactly ==
    pc \notin {"idle", "gate"} => (Denied <=> (HostRefused \/ OriginRefused))

\* an OPTIONS request with a valid Origin, denied for its Host
C1_Witness ==
    /\ Denied
    /\ req.method = "OPTIONS"
    /\ req.headers.host = Header("evil.example")
    /\ req.headers.origin = Header("http://localhost:8787")

\* C2: a denied request has read no body, written no trace artifact and
\* called no upstream (the history of the request is empty), its handler
\* has ended, and the only step that follows is the handler's return.
C2_RejectedDoesNothing ==
    [][/\ Denied' => (Work(events') = <<>> /\ pc' = "done")
       /\ Denied => (pc' = "idle" /\ events' = <<>> /\ out' = <<>>)]_vars

\* a POST with a body to read, denied while tracing is enabled
C2_Witness ==
    /\ Denied
    /\ req.method = "POST"
    /\ req.clen = "number"
    /\ cfg.trace
    /\ loc.path = "/v1/chat/completions"

(***************************************************************************)
(* Properties of the chat pipeline (specification Spec).                   *)
(***************************************************************************)
\* the bodies of the upstream calls of the request in hand
SentUpstream == { events[i].body : i \in { j \in 1..Len(events) : events[j].e = "upstream" } }

\* the response was produced by the normalizer
Normalized == \E i \in 1..Len(events) : events[i].e = "normalize"

\* C3: the body a chat request sends upstream, when it is a JSON object,
\* has only fields of ALLOWED_CHAT_FIELDS, stream = false, and an integer
\* max_tokens of at most MAX_PROXY_COMPLETION_TOKENS.  (A chat body that is
\* no JSON object has no field and is forwarded as it came.)
C3_ForwardedBodyIsSanitized ==
    \A b \in SentUpstream :
        (loc.is_chat /\ IsJsonObj(b)) =>
            /\ DOMAIN b.v.o \subseteq ALLOWED_CHAT_FIELDS
            /\ Get(b.v, "stream") = JBool(FALSE)
            /\ Get(b.v, "max_tokens").t = "int"
            /\ Get(b.v, "max_tokens").n <= MAX_PROXY_COMPLETION_TOKENS

\* a request with an unrecognized field and max_tokens = 1000, forwarded
\* with max_tokens at the ceiling
C3_Witness ==
    /\ loc.is_chat
    /\ IsJsonObj(loc.original_body)
    /\ Has(loc.original_body.v, "store")
    /\ Get(loc.original_body.v, "max_tokens") = JInt(1000)
    /\ \E b \in SentUpstream :
          IsJsonObj(b) /\ Get(b.v, "max_tokens") = JInt(MAX_PROXY_COMPLETION_TOKENS)

\* a POST /v1/chat/completions that passed the gate, got a 200 from the
\* upstream and has been answered
ChatAnswered ==
    /\ pc = "done"
    /\ req.method = "POST"
    /\ loc.path = "/v1/chat/completions"
    /\ up.kind = "ok"
    /\ Len(out) = 1

IsSse(response) == response.ctype = "text/event-stream"

\* the stream field of the client's body, false when there is none
StreamField ==
    IF IsJsonObj(loc.original_body) THEN GetD(loc.original_body.v, "stream", JBool(FALSE))
    ELSE JBool(FALSE)

\* C5 as stated: the answer is an event stream if and only if the request
\* body had stream set to true, and JSON otherwise; the body sent upstream
\* carries stream = false.
C5_StreamIffTrue ==
    ChatAnswered =>
        /\ IsSse(out[1]) <=> (StreamField = JBool(TRUE))
        /\ ~IsSse(out[1]) => out[1].ctype = "application/json"
        /\ \A b \in SentUpstream : IsJsonObj(b) /\ Get(b.v, "stream") = JBool(FALSE)

\* C5, amended: the answer is an event stream exactly when the stream field
\* of the request body is truthy and the answer is a 200 (normalizing or
\* transcoding a reply can raise, and the answer is then a 502); every
\* other answer is application/json with status 200 or 502; a JSON-object
\* body goes upstream with stream = false, any other body as it came.
C5_StreamIffTruthy ==
    ChatAnswered =>
        /\ IsSse(out[1]) <=> (Truthy(StreamField) /\ out[1].status = 200)
        /\ ~IsSse(out[1]) => (out[1].ctype = "application/json" /\ out[1].status \in {200, 502})
        /\ \A b \in SentUpstream :
              IF IsJsonObj(loc.original_body)
              THEN IsJsonObj(b) /\ Get(b.v, "stream") = JBool(FALSE)
              ELSE b = loc.original_body

\* a request whose stream field is the string "false", answered with an
\* event stream
C5_Witness ==
    /\ ChatAnswered
    /\ StreamField = JStr("false")
    /\ IsSse(out[1])
    /\ out[1].status = 200

\* the names of the tool calls a message or a delta carries
CallNames(holder) ==
    IF IsObj(holder) /\ IsList(Get(holder, "tool_calls"))
    THEN { Get(Get(Get(holder, "tool_calls").l[i], "function"), "name") :
             i \in 1..Len(Get(holder, "tool_calls").l) }
    ELSE {}

ChoicesOf(v) == IF IsObj(v) /\ IsList(Get(v, "choices")) THEN Get(v, "choices").l ELSE <<>>

NamesInJson(v) ==
    UNION { IF IsObj(ChoicesOf(v)[i])
            THEN CallNames(Get(ChoicesOf(v)[i], "message"))
                 \cup CallNames(Get(ChoicesOf(v)[i], "delta"))
            ELSE {} : i \in 1..Len(ChoicesOf(v)) }

\* the names of the tool calls in a response, JSON or event stream
EmittedCallNames(response) ==
    CASE response.body.k = "bytes" ->
             IF IsJson(response.body.b) THEN NamesInJson(response.body.b.v) ELSE {}
      [] response.body.k = "sse" ->
             UNION { IF response.body.frames[i].f = "data"
                     THEN NamesInJson(response.body.frames[i].v) ELSE {} :
                     i \in 1..Len(response.body.frames) }
      [] OTHER -> {}

\* C6: no response produced by the normalizer, JSON or event stream, has a
\* choice with a tool_calls entry whose name is in BLOCKED_TOOL_NAMES,
\* whatever the upstream's reply and the request are.
C6_NoBlockedToolCall ==
    (pc = "done" /\ Normalized /\ Len(out) = 1) =>
        EmittedCallNames(out[1]) \cap { JStr(n) : n \in BLOCKED_TOOL_NAMES } = {}

\* a reply with a read call in one choice and an exec call in the next:
\* only the exec call is emitted
C6_Witness ==
    /\ pc = "done"
    /\ Normalized
    /\ Len(out) = 1
    /\ loc.allow_tool_calls
    /\ up.body = JsonBody(Reply(<<AssistantChoice(ReadText), AssistantChoice(ExecText)>>))
    /\ EmittedCallNames(out[1]) = {JStr("exec")}

\* the messages of the client's body
ClientMessages ==
    IF IsJsonObj(loc.original_body) /\ IsList(Get(loc.original_body.v, "messages"))
    THEN Get(loc.original_body.v, "messages").l
    ELSE <<>>

UserTurns ==
    { i \in 1..Len(ClientMessages) :
        IsObj(ClientMessages[i]) /\ Get(ClientMessages[i], "role") = JStr("user") }

\* the text of the latest user message, "" when there is none
LatestUserMessage ==
    IF UserTurns = {} THEN ""
    ELSE IF IsStr(Get(ClientMessages[GreatestOr(UserTurns, 0)], "content"))
    THEN Get(ClientMessages[GreatestOr(UserTurns, 0)], "content").s
    ELSE ""

\* the text contains one of the intent markers
HasMarker(text) ==
    \E token \in TOOL_INTENT_TOKENS : Contains(" " \o Lower(text) \o " ", token)

\* the system message of a forwarded body carries the tool-usage block
HasToolBlock(b) ==
    /\ IsJsonObj(b)
    /\ IsList(Get(b.v, "messages"))
    /\ \E i \in 1..Len(Get(b.v, "messages").l) :
          /\ Get(Get(b.v, "messages").l[i], "role") = JStr("system")
          /\ Contains(Get(Get(b.v, "messages").l[i], "content").s, "Tool usage:")

\* C7: on the chat path, the synthesized system message has a tool-usage
\* block, and the response of the normalizer has a tool_calls entry, only
\* if the latest user message of the client's request contains an intent
\* marker; and the tools field is never in the body sent upstream.
C7_ToolsOnlyOnIntent ==
    /\ \A b \in SentUpstream :
          loc.is_chat =>
              /\ IsJsonObj(b) => ~Has(b.v, "tools")
              /\ HasToolBlock(b) => HasMarker(LatestUserMessage)
    /\ (pc = "done" /\ Normalized /\ Len(out) = 1 /\ EmittedCallNames(out[1]) # {})
          => HasMarker(LatestUserMessage)

\* a request that declares tools, whose marker is in an earlier user message
\* only, answered from a reply whose text is a tool call: no tool-usage
\* block went upstream and no tool call came back
C7_Witness ==
    /\ pc = "done"
    /\ Normalized
    /\ Len(out) = 1
    /\ IsJsonObj(loc.original_body)
    /\ Has(loc.original_body.v, "tools")
    /\ LatestUserMessage = "thanks"
    /\ up.body = JsonBody(Reply(<<AssistantChoice(ReadText), AssistantChoice(ExecText)>>))
    /\ EmittedCallNames(out[1]) = {}
    /\ \A b \in SentUpstream : ~HasToolBlock(b)

(***************************************************************************)
(* Properties of simplify_messages (specification SpecSimplify).           *)
(***************************************************************************)
\* the user messages of the list given to simplify_messages
UsersGiven == SelectSeq(loc.body.v.l, LAMBDA m : Get(m, "role") = JStr("user"))

\* the n most recent messages of a list of more than n
MostRecent(msgs, n) == SubSeq(msgs, Len(msgs) - n + 1, Len(msgs))

\* the one system message simplify_messages synthesizes, without tool prompt
\* and skills
SynthesizedSystem == Msg("system", MINIMAL_SYSTEM_PROMPT)

\* C4 as stated: for a list with more user messages than the history limit
\* N, for every N from 0 on, the result is the synthesized system message
\* followed by the N most recent user messages in their order, and nothing
\* else.
C4_KeepsLastN ==
    (pc = "simplified" /\ Len(UsersGiven) > cfg.maxHistory) =>
        loc.data = JsonBody(JList(<<SynthesizedSystem>>
                                  \o MostRecent(UsersGiven, cfg.maxHistory)))

\* C4 for the limits from 1 on, where it holds
C4_KeepsLastNPositive ==
    (pc = "simplified" /\ cfg.maxHistory >= 1 /\ Len(UsersGiven) > cfg.maxHistory) =>
        loc.data = JsonBody(JList(<<SynthesizedSystem>>
                                  \o MostRecent(UsersGiven, cfg.maxHistory)))

\* three messages, two of them of the user, under a limit of 1: the system
\* message and the last user message survive
C4_Witness ==
    /\ pc = "simplified"
    /\ cfg.maxHistory = 1
    /\ loc.body = JsonBody(JList(<<Msg("user", "m1"), Msg("system", "m2"), Msg("user", "m3")>>))
    /\ loc.data = JsonBody(JList(<<SynthesizedSystem, Msg("user", "m3")>>))

(***************************************************************************)
(* Properties of sanitize_response and to_sse (specification SpecResponse).*)
(***************************************************************************)
\* every element of the choices is complete: finish_reason, logprobs, and a
\* message with role, content and refusal
ChoicesComplete(v) ==
    \A i \in 1..Len(ChoicesOf(v)) :
        /\ IsObj(ChoicesOf(v)[i])
        /\ {"finish_reason", "logprobs", "message"} \subseteq DOMAIN ChoicesOf(v)[i].o
        /\ IsObj(Get(ChoicesOf(v)[i], "message"))
        /\ {"role", "content", "refusal"} \subseteq DOMAIN Get(ChoicesOf(v)[i], "message").o

CarriesToolCalls(b) ==
    /\ IsJsonObj(b)
    /\ \E i \in 1..Len(ChoicesOf(b.v)) : Has(Get(ChoicesOf(b.v)[i], "message"), "tool_calls")

\* a choice as the second pass leaves it: the message rebuilt from role and
\* content, without the tool_calls
WithoutToolCalls(choice) ==
    Put(choice, "message",
        Obj3("role", Get(Get(choice, "message"), "role"),
             "content", Get(Get(choice, "message"), "content"), "refusal", JNull))

FirstMessage ==
    IF Len(ChoicesOf(loc.data.v)) = 0 THEN EmptyObj
    ELSE Get(ChoicesOf(loc.data.v)[1], "message")

\* the delta and the finish_reason of a data frame
DeltaOf(frame) == Get(Get(frame.v, "choices").l[1], "delta")
FinishOf(frame) == Get(Get(frame.v, "choices").l[1], "finish_reason")

\* the deltas of the middle frames expected of the first choice
ExpectedMiddle ==
    IF Truthy(Get(FirstMessage, "tool_calls"))
    THEN <<JObj([k \in {"tool_calls"} |-> Get(FirstMessage, "tool_calls")])>>
    ELSE IF Truthy(GetD(FirstMessage, "content", JStr("")))
    THEN <<JObj([k \in {"content"} |-> Get(FirstMessage, "content")])>>
    ELSE <<>>

\* C10: the event stream of a normalized response is: a role frame
\* (assistant, empty content, null refusal); one tool-calls frame if the
\* first choice has a tool call, else one content frame with the whole
\* content if it is non-empty, else nothing; a finish frame with an empty
\* delta, finish_reason "stop" and the usage block; the [DONE] sentinel.
\* A tool-calls frame and a content frame never both occur, and the content
\* "hello" without tool call gives four frames, the third with
\* finish_reason "stop".
C10_FrameOrder ==
    (pc = "transcoded" /\ IsJsonObj(loc.data)) =>
        /\ ~Raised(out[1])
        /\ Len(out[1].v) = 3 + Len(ExpectedMiddle)
        /\ \A i \in 1..(Len(out[1].v) - 1) : out[1].v[i].f = "data"
        /\ DeltaOf(out[1].v[1])
              = Obj3("role", JStr("assistant"), "content", JStr(""), "refusal", JNull)
        /\ FinishOf(out[1].v[1]) = JNull
        /\ \A i \in 1..Len(ExpectedMiddle) :
              /\ DeltaOf(out[1].v[1 + i]) = ExpectedMiddle[i]
              /\ FinishOf(out[1].v[1 + i]) = JNull
        /\ DeltaOf(out[1].v[Len(out[1].v) - 1]) = EmptyObj
        /\ FinishOf(out[1].v[Len(out[1].v) - 1]) = JStr("stop")
        /\ Get(out[1].v[Len(out[1].v) - 1].v, "usage") = Get(loc.data.v, "usage")
        /\ out[1].v[Len(out[1].v)] = DoneFrame
        /\ ~(\E i, j \in 1..(Len(out[1].v) - 1) :
                Has(DeltaOf(out[1].v[i]), "tool_calls") /\ Has(DeltaOf(out[1].v[j]), "content")
                /\ i > 1 /\ j > 1)
        /\ (Get(FirstMessage, "content") = JStr("hello") /\ ~Has(FirstMessage, "tool_calls"))
              => (Len(out[1].v) = 4 /\ FinishOf(out[1].v[3]) = JStr("stop"))

\* the content "hello" without tool call, transcoded into four frames
C10_Witness ==
    /\ pc = "transcoded"
    /\ IsJsonObj(loc.data)
    /\ Get(FirstMessage, "content") = JStr("hello")
    /\ ~Has(FirstMessage, "tool_calls")
    /\ ~Raised(out[1])
    /\ Len(out[1].v) = 4
    /\ DeltaOf(out[1].v[2]) = JObj([k \in {"content"} |-> JStr("hello")])


(***************************************************************************)
(* Properties of the legacy completion path (specification Spec).          *)
(***************************************************************************)
\* a POST /v1/completions that passed the gate with a JSON-object body
LegacyRequest ==
    /\ req.method = "POST"
    /\ loc.path = "/v1/completions"
    /\ IsJsonObj(loc.original_body)

\* the prompt of the legacy body: `prompt or ""`
LegacyPrompt == PyOr(GetD(loc.original_body.v, "prompt", JStr("")), JStr(""))

\* the messages of a forwarded body, the synthesized system message aside
ForwardedTurns(b) ==
    SelectSeq(Get(b.v, "messages").l, LAMBDA m : Get(m, "role") # JStr("system"))

\* what the chat pipeline makes of the upstream's reply
ChatResult ==
    sanitize_response(up.body, [none |-> FALSE, names |-> loc.allowed_tool_names],
                      loc.allow_tool_calls, Now)

\* the content of the first choice of a chat response, "" when it has none
FirstContent(v) ==
    IF Raised(FirstChoice(v)) THEN JNull
    ELSE IF ~FirstChoice(v).v.some THEN JStr("")
    ELSE IF ~IsObj(FirstChoice(v).v.choice) THEN JStr("")
    ELSE IF ~IsObj(Get(FirstChoice(v).v.choice, "message")) THEN JStr("")
    ELSE PyOr(GetD(Get(FirstChoice(v).v.choice, "message"), "content", JStr("")), JStr(""))

\* the legacy request got a 200 made from a JSON-object reply of the upstream
LegacyAnswered ==
    /\ LegacyRequest
    /\ pc = "done"
    /\ up.kind = "ok"
    /\ IsJsonObj(up.body)
    /\ Len(out) = 1
    /\ out[1].status = 200

\* C11: a gate-passing POST /v1/completions with a JSON-object body goes to
\* the upstream's /v1/chat/completions as a sanitized chat body whose one
\* conversation message is the user message holding the prompt, with stream
\* false; the 200 made from the upstream's JSON-object reply went through
\* the normalizer, has object "text_completion" and one choice whose text is
\* the content of the first choice of the normalized chat response; and no
\* response of the legacy path is an event stream.
C11_LegacyThroughChat ==
    LegacyRequest =>
        /\ \A i \in 1..Len(events) :
              events[i].e = "upstream" =>
                  /\ events[i].path = "/v1/chat/completions"
                  /\ IsJsonObj(events[i].body)
                  /\ ForwardedTurns(events[i].body)
                         = <<Obj2("role", JStr("user"), "content", LegacyPrompt)>>
                  /\ Get(events[i].body.v, "stream") = JBool(FALSE)
        /\ \A i \in 1..Len(out) : ~IsSse(out[i])
        /\ LegacyAnswered =>
              /\ Normalized
              /\ out[1].ctype = "application/json"
              /\ IsJsonObj(out[1].body.b)
              /\ Get(out[1].body.b.v, "object") = JStr("text_completion")
              /\ Len(Get(out[1].body.b.v, "choices").l) = 1
              /\ Get(Get(out[1].body.b.v, "choices").l[1], "text")
                     = FirstContent(ChatResult.v.v)

\* the prompt "say hi" answered with the text "hello"
C11_Witness ==
    /\ LegacyAnswered
    /\ LegacyPrompt = JStr("say hi")
    /\ FirstContent(ChatResult.v.v) = JStr("hello")
    /\ Get(Get(out[1].body.b.v, "choices").l[1], "text") = JStr("hello")

(***************************************************************************)
(* Properties of the facade (specification Spec).                          *)
(***************************************************************************)
\* the request in hand passed the gate and is one the facade answers
FacadeRequest ==
    /\ pc \notin {"idle", "gate"}
    /\ ~Denied
    /\ \/ req.method = "POST" /\ loc.path = "/api/show"
       \/ req.method = "GET" /\ loc.path = "/v1/models"
       \/ req.method = "GET" /\ StartsWith(loc.path, "/v1/models/")

\* the id asked for by a GET /v1/models/{id}
ModelIdAsked == Strip(SubSeq(loc.path, Len("/v1/models/") + 1, Len(loc.path)))

\* the response is the one the facade fabricates for the request in hand
Fabricated(response) ==
    /\ response.status = 200
    /\ response.ctype = "application/json"
    /\ response.body.k = "bytes"
    /\ IF loc.path = "/api/show"
       THEN Ret(response.body.b) = fake_api_show(loc.body)
       ELSE IF loc.path = "/v1/models"
       THEN \E tags \in TagsReplies :
               response.body.b = JsonBody(fake_v1_models_list(tags, Now))
       ELSE response.body.b = JsonBody(fake_v1_model(ModelIdAsked, Now))

Handled == pc = "done" /\ ~Denied /\ req.method # "OPTIONS"

\* C13 as stated: a gate-passing request whose handling has ended has been
\* answered; no failure has left the handler without a response.
C13_EveryFailureAnswered == Handled => (~loc.escaped /\ Len(out) = 1)

\* C13 for the failures the try statement covers: once the upstream call has
\* been made the request is always answered, with the 502 "Proxy error" when
\* the upstream cannot be reached and when the normalizer raises on its reply.
C13_FailuresInTryAnswered ==
    (Handled /\ up.kind # "none") =>
        /\ ~loc.escaped
        /\ Len(out) = 1
        /\ up.kind \in {"unreachable", "connect_timeout"} => out[1] = BadGateway
        /\ (up.kind = "ok" /\ loc.is_chat /\ Raised(ChatResult)) => out[1] = BadGateway

\* a reply whose choices is the number 5: the normalizer raises, the client
\* gets the 502
C13_Witness ==
    /\ Handled
    /\ up.kind = "ok"
    /\ up.body = JsonBody(Obj2("id", JStr("x"), "choices", JInt(5)))
    /\ loc.is_chat
    /\ Raised(ChatResult)
    /\ out = <<BadGateway>>

\* the urlopen calls made with the client's request
ForwardingCalls == { i \in 1..Len(events) : events[i].e = "upstream" }

\* C14: no request has more than one forwarding call, whatever the outcome
\* of the call; and when the upstream answers with an HTTP error status the
\* one response written carries that status and that body.
C14_ErrorRelayedOnce ==
    /\ Cardinality(ForwardingCalls) <= 1
    /\ (pc = "done" /\ up.kind = "http_error") =>
           /\ Cardinality(ForwardingCalls) = 1
           /\ Len(out) = 1
           /\ out[1].status = up.status
           /\ out[1].body = Bytes(up.body)

\* a chat request answered by the upstream with a 500: the 500 and its body
\* are relayed after the one call
C14_Witness ==
    /\ pc = "done"
    /\ loc.is_chat
    /\ up.kind = "http_error"
    /\ up.status = 500
    /\ Cardinality(ForwardingCalls) = 1
    /\ out[1].status = 500
    /\ out[1].body = Bytes(up.body)

\* the upstream call of the request in hand ran into UPSTREAM_TIMEOUT
TimedOut == up.kind \in {"timeout", "connect_timeout"}

\* C15 as stated: a request whose upstream call timed out, on the connect or
\* while the reply was read, is answered with the 504.
C15_TimeoutAnswered504 ==
    (Handled /\ TimedOut) => (Len(out) = 1 /\ out[1].status = 504)

\* C15 for the timeouts that reach the handler as TimeoutError: a timeout
\* while the reply is read is answered with the 504 {"error": "upstream
\* timeout"} and the handler returns; a timeout of the connect is answered
\* with the 502 "Proxy error".
C15_ReadTimeoutAnswered504 ==
    /\ (Handled /\ up.kind = "timeout") =>
           /\ ~loc.escaped
           /\ Len(out) = 1
           /\ out[1].status = 504
           /\ out[1].body = Bytes(JsonBody(JObj([k \in {"error"} |-> JStr("upstream timeout")])))
    /\ (Handled /\ up.kind = "connect_timeout") => out = <<BadGateway>>

\* a streaming chat request whose upstream call timed out while the reply
\* was read
C15_Witness ==
    /\ Handled
    /\ up.kind = "timeout"
    /\ loc.is_chat
    /\ Truthy(loc.client_wants_stream)
    /\ Len(out) = 1
    /\ out[1].status = 504

(***************************************************************************)
(* Client disconnects.                                                     *)
(***************************************************************************)
\* the writes the connection refused, in the order they were attempted
FailedWrites == SelectSeq(events, LAMBDA ev : ev.e = "write-failed")

\* the handler took the exception of the refused write: nothing escaped, one
\* write was attempted and no response is on the wire
Absorbed ==
    /\ ~loc.escaped
    /\ Len(FailedWrites) = 1
    /\ out = <<>>

\* C16 as stated: when the client has gone before the response is written,
\* on any response path after the upstream call (success JSON, event stream,
\* relayed upstream error, timeout), the handler catches the connection
\* error and attempts no further response.
C16_DisconnectAbsorbed ==
    (pc = "done" /\ up.kind # "none" /\ FailedWrites # <<>>) => Absorbed

\* C16, as the code has it: a BrokenPipeError of the write is caught, and no
\* further response attempted, on the success path (JSON or event stream),
\* in the 504 of a timeout and in the 502 of a proxy error.
C16_BrokenPipeAbsorbedInTry ==
    (/\ pc = "done"
     /\ up.kind \in {"ok", "timeout", "connect_timeout", "unreachable"}
     /\ FailedWrites # <<>>
     /\ FailedWrites[1].error = "pipe") => Absorbed

\* an event stream refused with a BrokenPipeError: the handler ends quietly
C16_Witness ==
    /\ pc = "done"
    /\ up.kind = "ok"
    /\ Truthy(loc.client_wants_stream)
    /\ \E i \in 1..Len(events) : events[i].e = "transcode"
    /\ FailedWrites = <<[e |-> "write-failed", status |-> 200, error |-> "pipe"]>>
    /\ ~loc.escaped
    /\ out = <<>>

(***************************************************************************)
(* Malformed chat bodies.                                                  *)
(***************************************************************************)
\* a chat request whose body has been read
ChatPost ==
    /\ pc \in {"forward", "normalize", "respond", "done"}
    /\ req.path = "/v1/chat/completions"
    /\ req.method = "POST"
    /\ NonEmpty(loc.original_body)

\* the bodies the proxy has sent to the upstream for the request
ForwardedBodies ==
    SelectSeq(events, LAMBDA ev : ev.e = "upstream")

\* the request went to the upstream with the bytes the client sent, and the
\* handler did not fail
PassedThrough ==
    /\ ~loc.escaped
    /\ pc = "forward" => loc.body = loc.original_body
    /\ pc # "forward" => /\ Len(ForwardedBodies) = 1
                         /\ ForwardedBodies[1].body = loc.original_body

\* C17 as stated: a chat request body that is no parseable JSON, or parses
\* to something other than an object, is forwarded to the upstream byte for
\* byte unchanged instead of failing the request.
C17_MalformedForwardedUnchanged ==
    (ChatPost /\ ~IsJsonObj(loc.original_body)) => PassedThrough

\* C17, as the code has it: a chat body json.loads rejects with a
\* JSONDecodeError or a UnicodeDecodeError, or parses to something other than
\* an object, is forwarded byte for byte unchanged.
C17_UndecodableForwardedUnchanged ==
    (ChatPost /\ ~IsJsonObj(loc.original_body) /\ ~OverLimit(loc.original_body))
        => PassedThrough

\* bytes that are no JSON reached the upstream as they came and the request
\* was answered
C17_Witness ==
    /\ ChatPost
    /\ pc = "done"
    /\ loc.original_body = RawBody("garbage")
    /\ Len(ForwardedBodies) = 1
    /\ ForwardedBodies[1].body = RawBody("garbage")
    /\ Len(out) = 1

(***************************************************************************)
(* CORS headers.                                                           *)
(***************************************************************************)
\* the response carries the CORS headers for the origin
CarriesCors(response, origin) ==
    /\ response.cors.emitted
    /\ response.cors.vary = "Origin"
    /\ response.cors.allow_origin = origin
    /\ response.cors.allow_methods = "GET, POST, OPTIONS"
    /\ response.cors.allow_headers = CORS_ALLOW_HEADERS
    /\ response.cors.max_age = "86400"

\* C18: every response written for a request whose Origin is present and in
\* the allow-set carries Access-Control-Allow-Origin equal to that origin,
\* with the fixed methods, the allowed headers and the max-age; a response
\* to a request whose Origin is missing or not allowed carries no CORS
\* header of the proxy.
C18_CorsOnlyForAllowedOrigin ==
    \A i \in 1..Len(out) :
        IF OriginOf \in {"http://localhost:8787", "http://127.0.0.1:8787"}
        THEN CarriesCors(out[i], OriginOf)
        ELSE ~out[i].cors.emitted

\* an upstream error relayed to a client of an allowed origin, with the CORS
\* headers for that origin
C18_Witness ==
    /\ pc = "done"
    /\ up.kind = "http_error"
    /\ req.headers.origin = Header("http://localhost:8787")
    /\ Len(out) = 1
    /\ out[1].status = 404
    /\ out[1].cors.emitted
    /\ out[1].cors.allow_origin = "http://localhost:8787"

(***************************************************************************)
(* Trace identifiers under concurrent requests.  ThreadingHTTPServer runs  *)
(* each request in a thread of its own; the threads share _TRACE_SEQ.  A   *)
(* thread can be preempted between reading the clock and calling next();   *)
(* next() of itertools.count is one C call, which the interpreter lock     *)
(* makes atomic.  Here pc and loc hold one entry per worker, served counts *)
(* the calls begun, events lists the identifiers in the order next() handed *)
(* them out, and out lists them in the order the calls returned.           *)
(***************************************************************************)
MaxWorkers == 2
MaxCalls == 3

Workers == 1..MaxWorkers

\* the readings of int(time.time() * 1000): the clock may stand still between
\* two calls, advance, or be set back
ClockReadings == {Now, Now + 1}

RECURSIVE ZeroPad(_, _)
\* the format specification :06d applied to the decimal digits
ZeroPad(digits, width) == IF Len(digits) >= width THEN digits ELSE ZeroPad("0" \o digits, width)

\* the text of a trace id: f"{...}-{...:06d}"
TraceIdText(id) == IntStr(id.time) \o "-" \o ZeroPad(IntStr(id.seq), 6)

IdleWorker == [time |-> 0, before |-> 0, id |-> TraceId(0, 0)]

InitWorkers ==
    /\ cfg \in {c \in Configs : c.trace /\ c.allowNoOrigin}
    /\ traceSeq = 0
    /\ served = 0
    /\ pc = [w \in Workers |-> "idle"]
    /\ req = NoRequest
    /\ loc = [w \in Workers |-> IdleWorker]
    /\ up = NoUpstream
    /\ out = <<>>
    /\ events = <<>>

\* a worker enters _next_trace_id
WorkerCall(w) ==
    /\ pc[w] = "idle"
    /\ served < MaxCalls
    /\ served' = served + 1
    /\ loc' = [loc EXCEPT ![w] = [IdleWorker EXCEPT !.before = Len(out)]]
    /\ pc' = [pc EXCEPT ![w] = "clock"]
    /\ UNCHANGED <<cfg, traceSeq, req, up, out, events>>

\* int(time.time() * 1000), the first field of the f-string
WorkerClock(w, time) ==
    /\ pc[w] = "clock"
    /\ loc' = [loc EXCEPT ![w].time = time]
    /\ pc' = [pc EXCEPT ![w] = "count"]
    /\ UNCHANGED <<cfg, traceSeq, served, req, up, out, events>>

\* next(_TRACE_SEQ), the second field of the f-string, and the formatting
WorkerCount(w) ==
    /\ pc[w] = "count"
    /\ traceSeq' = next_TRACE_SEQ(traceSeq)
    /\ loc' = [loc EXCEPT ![w].id = TraceId(loc[w].time, next_TRACE_SEQ(traceSeq))]
    /\ events' = Append(events, [e |-> "trace-id", worker |-> w, before |-> loc[w].before,
                                 id |-> TraceId(loc[w].time, next_TRACE_SEQ(traceSeq)),
                                 text |-> TraceIdText(TraceId(loc[w].time,
                                                              next_TRACE_SEQ(traceSeq)))])
    /\ pc' = [pc EXCEPT ![w] = "return"]
    /\ UNCHANGED <<cfg, served, req, up, out>>

\* _next_trace_id returns the identifier to the handler
WorkerReturn(w) ==
    /\ pc[w] = "return"
    /\ out' = Append(out, loc[w].id)
    /\ pc' = [pc EXCEPT ![w] = "idle"]
    /\ UNCHANGED <<cfg, traceSeq, served, req, loc, up, events>>

NextWorkers ==
    \/ \E w \in Workers : WorkerCall(w)
    \/ \E w \in Workers, time \in ClockReadings : WorkerClock(w, time)
    \/ \E w \in Workers : WorkerCount(w)
    \/ \E w \in Workers : WorkerReturn(w)

SpecWorkers == InitWorkers /\ [][NextWorkers]_vars

\* C19: under any interleaving of the workers no two calls of
\* _next_trace_id obtain the same identifier, and the sequence numbers are
\* strictly increasing in the order they are handed out; a call that begins
\* after another has returned gets the larger number.
C19_TraceIdsUnique ==
    /\ \A i, j \in 1..Len(events) :
           i < j => /\ events[i].text # events[j].text
                    /\ events[i].id.seq < events[j].id.seq
    /\ \A k \in 1..Len(events) :
           \A j \in 1..events[k].before : out[j].seq < events[k].id.seq

\* two workers inside _next_trace_id at once, with the same clock reading,
\* have both obtained their identifiers
C19_Witness ==
    /\ Len(events) >= 2
    /\ events[1].worker # events[2].worker
    /\ events[1].id.time = events[2].id.time
    /\ events[2].before = 0
    /\ pc[events[1].worker] = "return"

(***************************************************************************)
(* Tracing and the outcome of a request.  The outcome is stated as a       *)
(* function of the request, the body read, the upstream's answer and the   *)
(* state of the client connection, with no reference to TRACE_ENABLED or  *)
(* to the result of any trace write; the handler must produce it in every  *)
(* trace configuration.                                                    *)
(***************************************************************************)
UntracedAllow ==
    _has_explicit_tool_intent(IF NonEmpty(loc.original_body)
                              THEN _extract_latest_user_text(loc.original_body) ELSE "")

UntracedNames ==
    IF NonEmpty(loc.original_body) THEN _extract_tool_names(loc.original_body) ELSE {}

UntracedIsCompletion == loc.path = "/v1/completions" /\ req.method = "POST"

UntracedRewritten == UntracedIsCompletion /\ IsJsonObj(loc.original_body)

UntracedIsChat ==
    \/ loc.path = "/v1/chat/completions" /\ req.method = "POST"
    \/ UntracedRewritten

\* the chat payload before it is sanitized
UntracedPayload ==
    IF UntracedRewritten THEN JsonBody(LegacyChatPayload(loc.original_body.v))
    ELSE loc.original_body

\* the body the upstream must receive
UntracedUpstreamBody ==
    IF UntracedIsChat /\ NonEmpty(UntracedPayload)
    THEN sanitize_chat_body(UntracedPayload, UntracedAllow, cfg.maxHistory, cfg.skills).v.body
    ELSE UntracedPayload

UntracedStream ==
    /\ UntracedIsChat
    /\ ~UntracedIsCompletion
    /\ NonEmpty(UntracedPayload)
    /\ Truthy(ClientWantsStream(UntracedPayload))

UntracedNormalized ==
    IF UntracedIsChat
    THEN sanitize_response(up.body, [none |-> FALSE, names |-> UntracedNames], UntracedAllow,
                           Now)
    ELSE Ret(up.body)

UntracedData ==
    IF Raised(UntracedNormalized) \/ ~UntracedIsCompletion THEN UntracedNormalized
    ELSE convert_chat_to_completion(UntracedNormalized.v, Now)

UntracedStreamResponse(sse_data) ==
    IF Raised(sse_data) THEN BadGateway
    ELSE Response(200, "text/event-stream", SseBytes(sse_data.v), req.headers)

\* the response to a request the upstream answered with a 200
UntracedSuccess ==
    IF Raised(UntracedData) THEN BadGateway
    ELSE IF UntracedStream THEN UntracedStreamResponse(to_sse(UntracedData.v, Now))
    ELSE _send_json(up.status, Bytes(UntracedData.v), req.headers)

\* the response to a forwarded request
UntracedForwarded ==
    CASE up.kind = "ok" -> UntracedSuccess
      [] up.kind = "http_error" -> Response(up.status, "upstream", Bytes(up.body), req.headers)
      [] up.kind = "timeout" ->
             _send_json(504, Bytes(JsonBody(JObj([k \in {"error"} |->
                                                     JStr("upstream timeout")]))), req.headers)
      [] OTHER -> BadGateway

UntracedDenial(verdict) == _deny_request(verdict.reason, verdict.details, req.headers)

UntracedPassesGate == _validate_request_security(req.headers, cfg.allowNoOrigin).ok

\* the request is one the handler forwards
UntracedForwards ==
    /\ UntracedPassesGate
    /\ req.method # "OPTIONS"
    /\ ~(loc.path = "/api/show" /\ req.method = "POST")
    /\ ~(loc.path = "/v1/models" /\ req.method = "GET")
    /\ ~(StartsWith(loc.path, "/v1/models/") /\ req.method = "GET")

\* the responses the request may get: one, or one per answer of the
\* upstream's /api/tags for the model list
UntracedResponses ==
    IF ~UntracedPassesGate
    THEN {UntracedDenial(_validate_request_security(req.headers, cfg.allowNoOrigin))}
    ELSE IF req.method = "OPTIONS" THEN {Response(204, "", Bytes(NoBody), req.headers)}
    ELSE IF loc.path = "/api/show" /\ req.method = "POST"
    THEN {_send_json(200, Bytes(fake_api_show(loc.original_body).v), req.headers)}
    ELSE IF loc.path = "/v1/models" /\ req.method = "GET"
    THEN {_send_json(200, Bytes(JsonBody(fake_v1_models_list(tags, Now))), req.headers) :
             tags \in TagsReplies}
    ELSE IF StartsWith(loc.path, "/v1/models/") /\ req.method = "GET"
    THEN {_send_json(200, Bytes(JsonBody(fake_v1_model(
                              Strip(SubSeq(loc.path, Len("/v1/models/") + 1, Len(loc.path))),
                              Now))), req.headers)}
    ELSE {UntracedForwarded}

\* the one request the upstream must receive
UntracedUpstreamCalls ==
    IF UntracedForwards
    THEN <<[e |-> "upstream", method |-> req.method,
            path |-> IF UntracedIsCompletion THEN "/v1/chat/completions" ELSE req.path,
            body |-> UntracedUpstreamBody]>>
    ELSE <<>>

\* C20: tracing never affects the outcome of a request: whether tracing is
\* disabled, every trace write succeeds or every trace write fails, the
\* response sent to the client (or attempted, when the client has gone) and
\* the body sent upstream are what the request, the upstream's answer and
\* the client connection determine.
C20_TracingNeverAffectsOutcome ==
    pc = "done" =>
        /\ ForwardedBodies = UntracedUpstreamCalls
        /\ IF FailedWrites = <<>>
           THEN Len(out) = 1 /\ out[1] \in UntracedResponses
           ELSE out = <<>> /\ FailedWrites[1].status \in {r.status : r \in UntracedResponses}

\* a chat request answered with the event stream while the trace directory
\* refuses every write
C20_Witness ==
    /\ pc = "done"
    /\ cfg.trace
    /\ cfg.disk = "full"
    /\ up.kind = "ok"
    /\ Len(ForwardedBodies) = 1
    /\ Len(out) = 1
    /\ out[1].status = 200
    /\ out[1].ctype = "text/event-stream"
    /\ \A i \in 1..Len(events) : events[i].e # "trace"

(***************************************************************************)
(* Persisted state: the files a request writes.                            *)
(***************************************************************************)
\* the trace artifacts written for the request, in order
TraceWrites == SelectSeq(events, LAMBDA ev : ev.e = "trace")

\* the files written for the request that are no trace artifacts
OtherFiles == SelectSeq(events, LAMBDA ev : ev.e = "file")

\* C21 as stated: handling a request writes no file other than its own trace
\* artifacts, one file per (request id, stage) pair, so that no two requests
\* ever write to the same file.
C21_OnlyOwnTraceArtifacts ==
    /\ OtherFiles = <<>>
    /\ \A i \in 1..Len(TraceWrites) : TraceWrites[i].id = loc.trace_id

\* C21, as the code has it: every trace artifact of a request carries the
\* request's own id and each stage is written at most once, so the trace
\* files of two requests, whose ids differ, are different files.
C21_TraceArtifactsAreOwn ==
    \A i \in 1..Len(TraceWrites) :
        /\ TraceWrites[i].id = loc.trace_id
        /\ \A j \in 1..Len(TraceWrites) :
               TraceWrites[i].suffix = TraceWrites[j].suffix => i = j

\* a streamed chat request answered with all five stages traced
C21_Witness ==
    /\ pc = "done"
    /\ Len(out) = 1
    /\ Len(TraceWrites) = 5
    /\ TraceWrites[1].suffix = "client-request.raw"
    /\ TraceWrites[5].suffix = "proxy-response.sse"
    /\ TraceWrites[5].id = loc.trace_id

(***************************************************************************)
(* The headers of the upstream request.  The client's header block is a    *)
(* list of lines (name, value) in the order received; the request urllib   *)
(* sends carries one value per name, with names compared without case.     *)
(***************************************************************************)
MaxHeaders == 3

HeaderLine(name, value) == [name |-> name, value |-> value]

\* the header lines a client may send
HeaderLines ==
    { HeaderLine("Host", "localhost:8081"),
      HeaderLine("Origin", "http://localhost:8787"),
      HeaderLine("Content-Length", "7"),
      HeaderLine("Transfer-Encoding", "chunked"),
      HeaderLine("Access-Control-Request-Method", "POST"),
      HeaderLine("access-control-request-headers", "content-type"),
      HeaderLine("Authorization", "Bearer abc"),
      HeaderLine("Accept", "text/plain"),
      HeaderLine("accept", "application/json"),
      HeaderLine("Connection", "keep-alive"),
      HeaderLine("Content-Type", "application/json") }

\* the names the loop of _proxy does not copy
SkippedHeaders ==
    {"host", "content-length", "transfer-encoding", "origin",
     "access-control-request-method", "access-control-request-headers"}

\* self.headers[header]: the value of the first line of that name
HeaderGet(lines, name) ==
    lines[CHOOSE i \in 1..Len(lines) :
              /\ Lower(lines[i].name) = name
              /\ \A j \in 1..(i - 1) : Lower(lines[j].name) # name].value

\* the loop of _proxy over self.headers: req.add_header(header,
\* self.headers[header]) for every line whose name is not skipped; add_header
\* keeps one value per name
CopiedHeaders(lines) ==
    [name \in {Lower(lines[i].name) : i \in 1..Len(lines)} \ SkippedHeaders |->
        HeaderGet(lines, name)]

\* the value of a header of the request sent: the one urllib sets for Host
\* and Connection, the proxy's Content-Length, else the copied one, else
\* urllib's default
SentValue(copied, body, name) ==
    CASE name = "host" -> "127.0.0.1:8000"
      [] name = "connection" -> "close"
      [] name = "content-length" -> "len(body)"
      [] name \in DOMAIN copied -> copied[name]
      [] name = "content-type" -> "application/x-www-form-urlencoded"
      [] name = "user-agent" -> "Python-urllib"
      [] OTHER -> "identity"

\* the header block urlopen sends for the copied headers and the body
SentHeaders(copied, body) ==
    [name \in DOMAIN copied \cup {"host", "connection", "user-agent", "accept-encoding"}
              \cup (IF NonEmpty(body) THEN {"content-length", "content-type"} ELSE {}) |->
        SentValue(copied, body, name)]

InitHeaders ==
    /\ cfg \in [allowNoOrigin : {TRUE}, maxHistory : {DEFAULT_MAX_HISTORY_MESSAGES},
                trace : {FALSE}, disk : {"ok"}, skills : {<<>>}]
    /\ \E n \in 0..MaxHeaders : \E lines \in [1..n -> HeaderLines] :
          req = [NoRequest EXCEPT !.method = "POST", !.path = "/api/chat",
                                  !.headers = lines]
    /\ loc \in {NoLocals, [NoLocals EXCEPT !.body = JsonBody(EmptyObj)]}
    /\ traceSeq = 0
    /\ served = 0
    /\ pc = "headers"
    /\ up = NoUpstream
    /\ out = <<>>
    /\ events = <<>>

\* urllib.request.Request(url, data, method), the loop over self.headers and
\* the request urlopen sends
ForwardHeaders ==
    /\ pc = "headers"
    /\ events' = <<[e |-> "upstream", method |-> req.method, path |-> req.path,
                    body |-> loc.body,
                    headers |-> SentHeaders(CopiedHeaders(req.headers), loc.body)]>>
    /\ pc' = "sent"
    /\ UNCHANGED <<cfg, traceSeq, served, req, loc, up, out>>

NextHeaders == ForwardHeaders

SpecHeaders == InitHeaders /\ [][NextHeaders]_vars

\* the header block the upstream received
Sent == events[1].headers

\* the hop-specific names of the specification
HopSpecific ==
    {"host", "content-length", "transfer-encoding",
     "access-control-request-method", "access-control-request-headers"}

\* the client's line reached the upstream with its value
Passed(line) ==
    /\ Lower(line.name) \in DOMAIN Sent
    /\ Sent[Lower(line.name)] = line.value

\* C22 as stated: when a request is forwarded, exactly the hop-specific
\* headers are removed and every other client header, Origin included, is
\* passed to the upstream with its value unchanged.
C22_AllButHopHeadersPassed ==
    pc = "sent" =>
        \A i \in 1..Len(req.headers) :
            IF Lower(req.headers[i].name) \in HopSpecific
            THEN Lower(req.headers[i].name) \in {"transfer-encoding",
                     "access-control-request-method", "access-control-request-headers"}
                     => Lower(req.headers[i].name) \notin DOMAIN Sent
            ELSE Passed(req.headers[i])

\* C22, as the code has it: Origin is removed with the hop-specific headers;
\* of every other name but Connection the first line is passed with its
\* value unchanged; Host and Connection are set by the sender and
\* Content-Length is the length of the forwarded body.
C22_FirstLinesButOriginPassed ==
    pc = "sent" =>
        /\ \A i \in 1..Len(req.headers) :
               IF Lower(req.headers[i].name) \in HopSpecific \cup {"origin", "connection"}
               THEN TRUE
               ELSE (\A j \in 1..(i - 1) :
                         Lower(req.headers[j].name) # Lower(req.headers[i].name))
                        => Passed(req.headers[i])
        /\ DOMAIN Sent \cap {"origin", "transfer-encoding", "access-control-request-method",
                             "access-control-request-headers"} = {}
        /\ Sent["host"] = "127.0.0.1:8000"
        /\ Sent["connection"] = "close"
        /\ NonEmpty(loc.body) <=> "content-length" \in DOMAIN Sent
        /\ NonEmpty(loc.body) => Sent["content-length"] = "len(body)"

\* a request with Authorization, Origin and a stale Content-Length forwarded:
\* the first is passed, the second dropped, the third replaced
C22_Witness ==
    /\ pc = "sent"
    /\ req.headers = <<HeaderLine("Authorization", "Bearer abc"),
                       HeaderLine("Origin", "http://localhost:8787"),
                       HeaderLine("Content-Length", "7")>>
    /\ NonEmpty(loc.body)
    /\ Sent["authorization"] = "Bearer abc"
    /\ "origin" \notin DOMAIN Sent
    /\ Sent["content-length"] = "len(body)"

(***************************************************************************)
(* The order of the pipeline stages.                                       *)
(***************************************************************************)
\* the name of the stage an event belongs to
StageOf(ev) == IF ev.e = "trace" THEN ev.suffix ELSE ev.e

\* the stages of the request in the order they happened: the traces, the
\* sanitizer, the upstream call, the normalizer and the transcoder, and last
\* the write to the client, after which the handler records nothing
StageEvents ==
    SelectSeq(events, LAMBDA ev : ev.e \in {"trace", "sanitize", "upstream", "normalize",
                                            "transcode"})

Stages ==
    [i \in 1..Len(StageEvents) |-> StageOf(StageEvents[i])]
    \o (IF out # <<>> THEN <<"write">> ELSE <<>>)

\* the position of a stage that occurred, 0 for one that did not
StagePos(stage) ==
    IF \E i \in 1..Len(Stages) : Stages[i] = stage
    THEN CHOOSE i \in 1..Len(Stages) : Stages[i] = stage
    ELSE 0

\* a chat request that passed the gate, with tracing on, answered 200 from a
\* 200 of the upstream
TracedChatSuccess ==
    /\ pc = "done"
    /\ cfg.trace
    /\ req.path = "/v1/chat/completions"
    /\ req.method = "POST"
    /\ NonEmpty(loc.original_body)
    /\ up.kind = "ok"
    /\ Len(out) = 1
    /\ out[1].status = 200

StreamingRequested == Truthy(ClientWantsStream(loc.original_body))

\* C23 as stated: the stages occur in the order raw-request trace, request
\* sanitization, sanitized-request trace, upstream call, response
\* normalization, streaming transcoding (if requested), final-response
\* trace, write to the client; the final trace is recorded after the
\* transcoding.
C23_FinalTraceAfterTranscoding ==
    TracedChatSuccess =>
        /\ 0 < StagePos("client-request.raw")
        /\ StagePos("client-request.raw") < StagePos("sanitize")
        /\ StagePos("sanitize") < StagePos("upstream-request.body")
        /\ StagePos("upstream-request.body") < StagePos("upstream")
        /\ StagePos("upstream") < StagePos("normalize")
        /\ StagePos("normalize") < StagePos("proxy-response.final")
        /\ StagePos("proxy-response.final") < StagePos("write")
        /\ StreamingRequested =>
               /\ StagePos("normalize") < StagePos("transcode")
               /\ StagePos("transcode") < StagePos("proxy-response.final")

\* C23, amended: the stages are, in this order, raw-request trace, request
\* sanitization, sanitized-request trace, upstream call, raw-response trace,
\* response normalization, final-response trace and, when streaming was
\* requested, streaming transcoding and the trace of the event stream; the
\* write to the client comes last.
C23_StagesInOrder ==
    TracedChatSuccess =>
        Stages = <<"client-request.raw", "sanitize", "upstream-request.body", "upstream",
                   "upstream-response.raw", "normalize", "proxy-response.final">>
                 \o (IF StreamingRequested THEN <<"transcode", "proxy-response.sse">>
                     ELSE <<>>)
                 \o <<"write">>

\* a streamed chat request whose final trace precedes the transcoding
C23_Witness ==
    /\ TracedChatSuccess
    /\ StreamingRequested
    /\ out[1].ctype = "text/event-stream"
    /\ 0 < StagePos("proxy-response.final")
    /\ StagePos("proxy-response.final") < StagePos("transcode")
    /\ StagePos("transcode") < StagePos("proxy-response.sse")

(***************************************************************************)
(* Timestamp repair.                                                       *)
(***************************************************************************)
\* the created field of the upstream's reply, and of the normalized response
CreatedIn == GetD(up.body.v, "created", JInt(0))
CreatedOut == Get(loc.data.v, "created")

\* a JSON object normalized by sanitize_response
NormalizedObject == pc = "normalized" /\ IsJsonObj(up.body)

\* an integer number of seconds: positive and below the threshold of 1e15
IsSeconds(v) == v.t = "int" /\ v.n > 0

\* an integer hi * 10^9 + lo above 1e15 = 10^6 * 10^9
AboveThreshold(v) == v.t = "big" /\ (v.hi >= 1000001 \/ (v.hi = 1000000 /\ v.lo >= 1))

\* C24 as stated: after normalization created is always a seconds value.
C24_CreatedAlwaysSeconds == NormalizedObject => IsSeconds(CreatedOut)

\* C24, as the code has it: an integer created above 1e15 is replaced by its
\* value in whole seconds, a zero, null or absent created by the current
\* time, and a created in seconds, like every other value, is left
\* unchanged.
C24_CreatedRepaired ==
    NormalizedObject =>
        IF AboveThreshold(CreatedIn) THEN CreatedOut = JInt(CreatedIn.hi)
        ELSE IF CreatedIn \in {JInt(0), JNull} THEN CreatedOut = JInt(Now)
        ELSE CreatedOut = CreatedIn

\* 1731000000000000000 has become 1731000000
C24_Witness ==
    /\ NormalizedObject
    /\ Has(up.body.v, "created")
    /\ Get(up.body.v, "created") = JBig(1731000000, 0)
    /\ CreatedOut = JInt(1731000000)

(***************************************************************************)
(* parse_tool_call and remap_tool_call on their own: the text the language *)
(* model generated is held in up.body, the declared tool names in          *)
(* loc.allowed_tool_names, the parsed call in loc.data and the remapped    *)
(* call in out.                                                            *)
(***************************************************************************)
\* JSON objects a language model writes for a tool call, well formed or not
CallTexts ==
    { "{\"tool\": \"exec\", \"arguments\": {\"command\": \"script.py\"}}",
      "{\"tool\": \"exec\", \"arguments\": {\"command\": \"  python3 run.py \"}}",
      "{\"tool\": \"exec\", \"arguments\": {\"command\": \". tool.py\"}}",
      "{\"tool\": \"exec\", \"arguments\": {\"command\": \"ls -l\", \"timeout\": 5}}",
      "{\"tool\": \"exec\", \"arguments\": {\"command\": 5}}",
      "{\"tool\": \"exec\", \"arguments\": {\"command\": \"  \"}}",
      "{\"tool\": \"exec\", \"arguments\": {\"cwd\": \"/tmp\"}}",
      "{\"name\": \"read\", \"arguments\": {\"path\": \"a.py\"}}",
      "{\"tool_name\": \"search\", \"args\": {\"q\": \"x\", \"n\": 2}}",
      "{\"skill\": \"weather\"}",
      "{\"tool\": \"read\", \"arguments\": {}}",
      "{\"tool\": \"read\", \"arguments\": []}",
      "{\"tool\": \"read\", \"arguments\": [1]}",
      "{\"tool\": \"read\", \"arguments\": \"a.txt\"}",
      "{\"tool\": \"read\", \"arguments\": 5}",
      "{\"tool\": \"read\", \"arguments\": 0, \"args\": {\"path\": \"b\"}}",
      "{\"tool\": \"\", \"arguments\": {\"path\": \"a\"}}",
      "{\"arguments\": {\"path\": \"a\"}}",
      "{\"tool\": \"tts\", \"arguments\": {\"text\": \"hi\"}}",
      "{\"tool\": \"exec\", \"arguments\": {\"command\": \"ls\"}",
      "{\"tool\": \"exec\", \"arguments\": {command: ls}}",
      "\"tool\": \"exec\", \"command\": \"run.py\"",
      "\"name\" : \"read\" and \"path\":\"a.txt\"",
      "\"tool\": \"\"",
      "use the tool exec",
      "5" }

TextsBefore == {"", "Sure. "}
TextsAfter == {"", " Done."}

\* the texts parse_tool_call is given: a call text on its own, in a code
\* fence, or inside a sentence
ToolTexts ==
    { before \o text \o after : before \in TextsBefore, text \in CallTexts,
                                 after \in TextsAfter }
    \cup { Tick \o Tick \o Tick \o "json\n" \o text \o "\n" \o Tick \o Tick \o Tick :
              text \in CallTexts }

InitParse ==
    /\ cfg \in [allowNoOrigin : {TRUE}, maxHistory : {DEFAULT_MAX_HISTORY_MESSAGES},
                trace : {FALSE}, disk : {"ok"}, skills : {<<>>}]
    /\ \E text \in ToolTexts : up = [NoUpstream EXCEPT !.body = JStr(text)]
    /\ \E names \in AllowedNameSets : loc = [NoLocals EXCEPT !.allowed_tool_names = names]
    /\ traceSeq = 0
    /\ served = 0
    /\ pc = "text"
    /\ req = NoRequest
    /\ out = <<>>
    /\ events = <<>>

\* tool_call = parse_tool_call(content, allowed_tool_names)
Parse ==
    /\ pc = "text"
    /\ loc' = [loc EXCEPT !.data = parse_tool_call(up.body,
                                       [none |-> FALSE, names |-> loc.allowed_tool_names])]
    /\ pc' = "parsed"
    /\ UNCHANGED <<cfg, traceSeq, served, req, up, out, events>>

\* tool_call = remap_tool_call(tool_call, latest_user_text, allowed_tool_names)
Remap ==
    /\ pc = "parsed"
    /\ ~Raised(loc.data)
    /\ out' = <<remap_tool_call(loc.data.v)>>
    /\ pc' = "remapped"
    /\ UNCHANGED <<cfg, traceSeq, served, req, loc, up, events>>

NextParse == Parse \/ Remap

SpecParse == InitParse /\ [][NextParse]_vars

(***************************************************************************)
(* The three tiers of the parser.                                          *)
(***************************************************************************)
\* the text the tiers work on, and the call parse_tool_call returned
RawText == Unfence(up.body.s)
Parsed == pc \in {"parsed", "remapped"}

\* the text as a whole is no JSON, and so is its first balanced brace span,
\* if it has one
NoTierParses ==
    /\ ~Loads(RawText).ok
    /\ ~BraceSpanPayload(RawText).ok

\* the tool name the pattern of the third tier finds in the text, "" for none
QuotedName == SearchKey(RawText, <<"tool", "name", "tool_name", "skill">>, 1)

\* C25 as stated: whenever the text neither parses as a whole nor yields a
\* parseable balanced brace span, the regex tier runs and recovers a call if
\* the text holds a quoted tool, name, tool_name or skill key with a
\* non-empty string value.
C25_RegexAfterFailedTiers ==
    (Parsed /\ NoTierParses /\ QuotedName # "") =>
        /\ ~Raised(loc.data)
        /\ loc.data.v.some
        /\ loc.data.v.name = JStr(QuotedName)

\* C25, as the code has it: the regex tier runs only for a text without any
\* opening brace; a text with a brace whose first span is unbalanced or no
\* JSON yields no call.
C25_RegexOnlyWithoutBrace ==
    (Parsed /\ NoTierParses) =>
        /\ ~Raised(loc.data)
        /\ IF Find(RawText, "{") # 0 THEN ~loc.data.v.some
           ELSE IF QuotedName # "" THEN /\ loc.data.v.some
                                        /\ loc.data.v.name = JStr(QuotedName)
           ELSE ~loc.data.v.some

\* a call recovered by the regex tier from a text without braces
C25_Witness ==
    /\ Parsed
    /\ up.body = JStr("Sure. \"tool\": \"exec\", \"command\": \"run.py\"")
    /\ loc.data = Ret(Call(JStr("exec"), JObj([k \in {"command"} |-> JStr("run.py")])))

(***************************************************************************)
(* The validity of a recovered call.                                       *)
(***************************************************************************)
\* the text as a whole is a JSON object: the payload of the first tier
WholeObject == Loads(RawText).ok /\ IsObj(Loads(RawText).v)
WholePayload == Loads(RawText).v

\* the payload names a tool under one of the four keys
NamesTool(p) ==
    \E k \in {"tool", "name", "tool_name", "skill"} : IsStr(Get(p, k)) /\ Get(p, k).s # ""

\* a list or a scalar: neither a mapping nor null
ListOrScalar(v) == v.t \in {"list", "str", "int", "big", "bool"}

\* C26 as stated: arguments given as a list, empty or not, or as a scalar
\* yield no call.
C26_ListOrScalarYieldsNoCall ==
    (Parsed /\ WholeObject /\ ListOrScalar(Get(WholePayload, "arguments"))) =>
        /\ ~Raised(loc.data)
        /\ ~loc.data.v.some

\* C26, as the code has it: a call is returned only with a non-empty name
\* and a mapping as arguments; a non-empty list or a truthy scalar under
\* "arguments" yields no call; a named payload whose "arguments" and "args"
\* are empty, falsy or missing yields a call with empty arguments; and a
\* name outside the declared set is returned.
C26_CallHasNameAndMapping ==
    (Parsed /\ ~Raised(loc.data)) =>
        /\ loc.data.v.some => /\ Truthy(loc.data.v.name)
                              /\ IsObj(loc.data.v.arguments)
        /\ (WholeObject /\ ListOrScalar(Get(WholePayload, "arguments"))
               /\ Truthy(Get(WholePayload, "arguments"))) => ~loc.data.v.some
        /\ (WholeObject /\ NamesTool(WholePayload)
               /\ ~Truthy(Get(WholePayload, "arguments"))
               /\ ~Truthy(Get(WholePayload, "args")))
              => /\ loc.data.v.some
                 /\ loc.data.v.arguments = EmptyObj
        /\ (WholeObject /\ NamesTool(WholePayload)
               /\ IsObj(Get(WholePayload, "arguments"))
               /\ Truthy(Get(WholePayload, "arguments")))
              => /\ loc.data.v.some
                 /\ loc.data.v.arguments = Get(WholePayload, "arguments")

\* a call to a tool the client did not declare, returned with its arguments
C26_Witness ==
    /\ Parsed
    /\ up.body = JStr("{\"tool_name\": \"search\", \"args\": {\"q\": \"x\", \"n\": 2}}")
    /\ loc.allowed_tool_names = {"exec", "read"}
    /\ loc.data = Ret(Call(JStr("search"), Obj2("q", JStr("x"), "n", JInt(2))))

(***************************************************************************)
(* The remapping of a recovered call.                                      *)
(***************************************************************************)
\* the call handed to remap_tool_call and the call it returned
Remapped == pc = "remapped" /\ loc.data.v.some
CallIn == loc.data.v
CallOut == out[1]

\* the command of the call, null when it has none
CommandIn == Get(CallIn.arguments, "command")

\* the normalization the claim describes, on the trimmed command: one
\* leading ". " removed, then "python3 " put before a script that does not
\* begin with "python"
WithInterpreter(c) ==
    IF Len(c) >= 3 /\ SubSeq(c, Len(c) - 2, Len(c)) = ".py"
       /\ ~(Len(c) >= 6 /\ SubSeq(c, 1, 6) = "python")
    THEN "python3 " \o c
    ELSE c

WithoutDot(c) ==
    IF Len(c) >= 2 /\ SubSeq(c, 1, 2) = ". " THEN Strip(SubSeq(c, 3, Len(c))) ELSE c

NormalCommand(c) == WithInterpreter(WithoutDot(Strip(c)))

\* C27 as stated: for a recovered exec call with a string command the
\* remapping returns the call with the normalized command.
C27_ExecCommandNormalized ==
    (Remapped /\ CallIn.name = JStr("exec") /\ IsStr(CommandIn)) =>
        /\ ~Raised(CallOut)
        /\ CallOut.v.some
        /\ CallOut.v.name = JStr("exec")
        /\ Get(CallOut.v.arguments, "command") = JStr(NormalCommand(CommandIn.s))

\* C27, amended: for an exec call whose command is a string that is not
\* blank, the remapping returns an exec call whose only argument is the
\* normalized command; an exec call with a blank, missing or non-string
\* command and a call with any other name that is not blocked are returned
\* with name and arguments unchanged.
C27_NonBlankExecCommandNormalized ==
    (Remapped /\ IsStr(CallIn.name) /\ CallIn.name.s \notin BLOCKED_TOOL_NAMES) =>
        IF CallIn.name = JStr("exec") /\ IsStr(CommandIn) /\ Strip(CommandIn.s) # ""
        THEN CallOut = Ret(Call(JStr("exec"),
                                JObj([k \in {"command"} |->
                                         JStr(NormalCommand(CommandIn.s))])))
        ELSE CallOut = Ret(CallIn)

\* the command script.py has become python3 script.py
C27_Witness ==
    /\ Remapped
    /\ CallIn = Call(JStr("exec"), JObj([k \in {"command"} |-> JStr("script.py")]))
    /\ CallOut = Ret(Call(JStr("exec"),
                          JObj([k \in {"command"} |-> JStr("python3 script.py")])))

(***************************************************************************)
(* The resolution of max_tokens, over bodies that carry max_tokens and     *)
(* max_completion_tokens of every JSON kind.                               *)
(***************************************************************************)
Absent == [t |-> "absent"]

TokenValues ==
    {Absent, JNull, JInt(64), JInt(128), JInt(129), JInt(1000), JInt(0), JInt(0 - 3),
     JBool(TRUE), JBool(FALSE), JStr("64"), JList(<<>>)}

TokenFields(mt, mct) ==
    {k \in {"max_tokens"} : mt # Absent} \cup {k \in {"max_completion_tokens"} : mct # Absent}

TokenBody(mt, mct) ==
    JsonBody(JObj([k \in TokenFields(mt, mct) |-> IF k = "max_tokens" THEN mt ELSE mct]))

InitTokens ==
    /\ cfg \in [allowNoOrigin : {TRUE}, maxHistory : {DEFAULT_MAX_HISTORY_MESSAGES},
                trace : {FALSE}, disk : {"ok"}, skills : {<<>>}]
    /\ \E mt \in TokenValues : \E mct \in TokenValues :
          loc = [NoLocals EXCEPT !.original_body = TokenBody(mt, mct),
                                 !.body = TokenBody(mt, mct)]
    /\ traceSeq = 0
    /\ served = 0
    /\ pc = "body"
    /\ req = NoRequest
    /\ up = NoUpstream
    /\ out = <<>>
    /\ events = <<>>

\* body = sanitize_chat_body(body, tool_prompt_enabled=...)
SanitizeBody ==
    /\ pc = "body"
    /\ loc' = [loc EXCEPT !.body = sanitize_chat_body(loc.body, FALSE, cfg.maxHistory,
                                                      cfg.skills).v.body]
    /\ pc' = "sanitized"
    /\ UNCHANGED <<cfg, traceSeq, served, req, up, out, events>>

NextTokens == SanitizeBody

SpecTokens == InitTokens /\ [][NextTokens]_vars

\* the two fields as the client sent them, and the forwarded max_tokens
ClientMaxTokens == Get(loc.original_body.v, "max_tokens")
ClientMaxCompletion == Get(loc.original_body.v, "max_completion_tokens")
ForwardedMaxTokens == Get(loc.body.v, "max_tokens")

\* an explicit positive integer of JSON, and the clamp to the ceiling
ExplicitPositive(v) == v.t = "int" /\ v.n > 0
Clamped(v) ==
    IF v.n > MAX_PROXY_COMPLETION_TOKENS THEN JInt(MAX_PROXY_COMPLETION_TOKENS) ELSE v

ResolvedAsClaimed ==
    IF ExplicitPositive(ClientMaxTokens) THEN Clamped(ClientMaxTokens)
    ELSE IF ExplicitPositive(ClientMaxCompletion) THEN Clamped(ClientMaxCompletion)
    ELSE JInt(MAX_PROXY_COMPLETION_TOKENS)

\* the field the resolution takes is the JSON value true
TakesTrue ==
    \/ ClientMaxTokens = JBool(TRUE)
    \/ ~ExplicitPositive(ClientMaxTokens) /\ ClientMaxCompletion = JBool(TRUE)

\* C28 as stated: the forwarded max_tokens is the client's max_tokens if a
\* positive integer, else the client's max_completion_tokens if a positive
\* integer, each clamped to the ceiling, else the ceiling; the forwarded
\* body has no max_completion_tokens.
C28_MaxTokensResolved ==
    pc = "sanitized" =>
        /\ ForwardedMaxTokens = ResolvedAsClaimed
        /\ ~Has(loc.body.v, "max_completion_tokens")

\* C28, as far as it holds: the forwarded body has no max_completion_tokens,
\* and its max_tokens is resolved as stated unless the field the resolution
\* takes is the JSON value true, which is forwarded as true.
C28_MaxTokensResolvedUnlessTrue ==
    pc = "sanitized" =>
        /\ ~Has(loc.body.v, "max_completion_tokens")
        /\ ForwardedMaxTokens = IF TakesTrue THEN JBool(TRUE) ELSE ResolvedAsClaimed

\* max_tokens 0 and max_completion_tokens 1000: the ceiling is forwarded
C28_Witness ==
    /\ pc = "sanitized"
    /\ ClientMaxTokens = JInt(0)
    /\ ClientMaxCompletion = JInt(1000)
    /\ ForwardedMaxTokens = JInt(MAX_PROXY_COMPLETION_TOKENS)
    /\ ~Has(loc.body.v, "max_completion_tokens")

(***************************************************************************)
(* The recovered call in the normalized choice (specification             *)
(* SpecResponse).                                                          *)
(***************************************************************************)
\* the content the upstream sent in its i-th choice, "" when it sent none,
\* and the message of the i-th normalized choice
UpstreamContent(i) ==
    GetD(GetD(ChoicesOf(up.body.v)[i], "message", EmptyObj), "content", JStr(""))
NormalizedMessage(i) == Get(ChoicesOf(loc.data.v)[i], "message")

\* the call recovered from the content of the i-th choice: parsed, remapped
RecoveredFrom(i) ==
    RecoverCall(UpstreamContent(i), [none |-> FALSE, names |-> loc.allowed_tool_names],
                loc.allow_tool_calls).v

\* the one entry the message carries for the call
CarriesCall(msg, call) ==
    /\ Get(msg, "content") = JStr("")
    /\ IsList(Get(msg, "tool_calls"))
    /\ Len(Get(msg, "tool_calls").l) = 1
    /\ Get(Get(msg, "tool_calls").l[1], "type") = JStr("function")
    /\ Get(Get(Get(msg, "tool_calls").l[1], "function"), "name") = call.name
    /\ Get(Get(Get(msg, "tool_calls").l[1], "function"), "arguments")
          = JStr(Dumps(call.arguments))

\* C29: in a normalized response, a choice from whose content a non-blocked
\* call was recovered has content "" and a tool_calls array of exactly one
\* entry of type "function" whose function.arguments is the JSON text of the
\* argument mapping; a choice without a recovered call has the upstream's
\* content and no tool_calls; no choice has both a non-empty content and a
\* tool_calls array.
C29_RecoveredCallReplacesContent ==
    (pc = "normalized" /\ IsJsonObj(up.body)) =>
        \A i \in 1..Len(ChoicesOf(loc.data.v)) :
            /\ IF RecoveredFrom(i).some
               THEN CarriesCall(NormalizedMessage(i), RecoveredFrom(i))
               ELSE /\ Get(NormalizedMessage(i), "content") = UpstreamContent(i)
                    /\ ~Has(NormalizedMessage(i), "tool_calls")
            /\ ~(Has(NormalizedMessage(i), "tool_calls")
                 /\ Truthy(Get(NormalizedMessage(i), "content")))

\* a response whose second choice carried an exec call with two arguments
\* and whose first choice had no content: the call is attached with its
\* arguments as JSON text, the first content is ""
C29_Witness ==
    /\ pc = "normalized"
    /\ IsJsonObj(up.body)
    /\ Len(ChoicesOf(loc.data.v)) = 2
    /\ ~RecoveredFrom(1).some
    /\ RecoveredFrom(2).some
    /\ RecoveredFrom(2).name = JStr("exec")
    /\ Get(NormalizedMessage(2), "content") = JStr("")
    /\ Get(Get(Get(NormalizedMessage(2), "tool_calls").l[1], "function"), "arguments")
          = JStr("{\"command\": \"python3 script.py\"}")

(***************************************************************************)
(* One response per request (specification SpecFaults).                    *)
(***************************************************************************)
\* the responses begun for the request in hand: those written in full and
\* those whose write the connection refused
ResponsesStarted == Len(out) + Len(FailedWrites)

\* C30 as stated: for every request and every outcome of the upstream call
\* and of the client connection, at most one response is started; no error
\* response is begun after another response has been started.
C30_AtMostOneResponseStarted == ResponsesStarted <= 1

\* C30, as far as it holds: at most one response is written in full, and a
\* second response is begun only where the write of the success response
\* failed with an error other than BrokenPipeError: the 502 of the proxy
\* error is then begun after the 200.
C30_SecondResponseOnlyAfterReset ==
    /\ Len(out) <= 1
    /\ ResponsesStarted > 1 =>
          /\ out = <<>>
          /\ up.kind = "ok"
          /\ Len(FailedWrites) = 2
          /\ FailedWrites[1] = [e |-> "write-failed", status |-> 200, error |-> "reset"]
          /\ FailedWrites[2].status = 502

\* the 200 was refused with a connection reset and the 502 begun after it
C30_Witness ==
    /\ pc = "done"
    /\ up.kind = "ok"
    /\ Len(FailedWrites) = 2
    /\ FailedWrites[1].status = 200 /\ FailedWrites[1].error = "reset"
    /\ FailedWrites[2].status = 502

====
